---- MODULE Spec2Model ----
(***************************************************************************)
(* Repository context assembly of clawcrew (utils/github.py):              *)
(* find_key_files, read_file_safe and build_repo_context ("Mode A").       *)
(*                                                                         *)
(* Text is modelled by its structure and its length in characters: a file  *)
(* content is the record of how many characters of reader header, of file  *)
(* text and of error note it holds and whether the budget note follows.    *)
(* Lengths of literal strings are taken with Len of the literal itself.    *)
(***************************************************************************)
EXTENDS Integers, Sequences, FiniteSets, TLC

\* ------------------------------------------------------------------------
\* Configuration (github.py:19-57)
\* ------------------------------------------------------------------------
MAX_FILE_SIZE == 100 * 1024
MAX_TOTAL_CONTENT == 500 * 1024
MAX_FILES_PER_CATEGORY == 5
MAX_TREE_DEPTH == 4

PRIORITY_FILES ==
  << "README.md", "README.rst", "README.txt", "README",
     "CONTRIBUTING.md", "ARCHITECTURE.md", "DESIGN.md" >>

ENTRY_POINT_PATTERNS ==
  << "main.py", "app.py", "run.py", "__main__.py", "cli.py",
     "src/main.py", "src/app.py", "src/__main__.py",
     "index.js", "index.ts", "main.js", "main.ts", "app.js", "app.ts",
     "src/index.js", "src/index.ts", "src/main.js", "src/main.ts",
     "main.go", "cmd/main.go",
     "src/main.rs", "src/lib.rs" >>

CONFIG_FILES ==
  << "pyproject.toml", "setup.py", "setup.cfg", "requirements.txt",
     "Pipfile", "poetry.lock",
     "package.json", "package-lock.json", "yarn.lock", "tsconfig.json",
     "go.mod", "go.sum",
     "Cargo.toml", "Cargo.lock",
     "Makefile", "Dockerfile", "docker-compose.yml", ".env.example" >>

core_dirs == << "src", "lib", "pkg", "internal", "app" >>
core_patterns == << "py", "js", "ts", "go", "rs" >>

\* ------------------------------------------------------------------------
\* Bounds of the model
\* ------------------------------------------------------------------------
\* most candidate paths present in a snapshot of the assembly specification
MaxFiles == 2
\* most paths by which a snapshot of the classifier specification differs
\* from one of its base snapshots
MaxDelta == 2

\* ------------------------------------------------------------------------
\* Sequences helpers (Python list operations)
\* ------------------------------------------------------------------------
Min(a, b) == IF a <= b THEN a ELSE b
Max(a, b) == IF a >= b THEN a ELSE b

\* s[:n]
Take(s, n) == SubSeq(s, 1, Min(Max(n, 0), Len(s)))

Range(s) == { s[i] : i \in 1..Len(s) }

Reverse(s) == [ i \in 1..Len(s) |-> s[Len(s) + 1 - i] ]

RECURSIVE Flatten(_)
Flatten(ss) == IF ss = << >> THEN << >> ELSE Head(ss) \o Flatten(Tail(ss))

\* ------------------------------------------------------------------------
\* The filesystem snapshot under repo_path
\* ------------------------------------------------------------------------
RepoPath == "/tmp/repo"

\* entries directly inside docs/, src/, lib/, cmd/ that a snapshot may hold,
\* in the order the directory lists them (os.scandir order, not sorted)
ChildOrder ==
  [ docs |-> << [dir |-> "docs", name |-> "guide.md", ext |-> "md"],
                [dir |-> "docs", name |-> "api.md", ext |-> "md"],
                [dir |-> "docs", name |-> "notes.txt", ext |-> "txt"],
                [dir |-> "docs", name |-> "faq.md", ext |-> "md"],
                [dir |-> "docs", name |-> "changes.md", ext |-> "md"] >>,
    src  |-> << [dir |-> "src", name |-> "util.py", ext |-> "py"],
                [dir |-> "src", name |-> "main.py", ext |-> "py"],
                [dir |-> "src", name |-> "index.js", ext |-> "js"],
                [dir |-> "src", name |-> "app.py", ext |-> "py"],
                [dir |-> "src", name |-> "lib.rs", ext |-> "rs"],
                [dir |-> "src", name |-> "main.rs", ext |-> "rs"] >>,
    lib  |-> << [dir |-> "lib", name |-> "core.go", ext |-> "go"],
                [dir |-> "lib", name |-> "helpers.py", ext |-> "py"],
                [dir |-> "lib", name |-> "io.go", ext |-> "go"],
                [dir |-> "lib", name |-> "net.go", ext |-> "go"] >>,
    cmd  |-> << [dir |-> "cmd", name |-> "main.go", ext |-> "go"] >>,
    pkg |-> << >>, internal |-> << >>, app |-> << >> ]

DirNames == DOMAIN ChildOrder

ChildPath(c) == c.dir \o "/" \o c.name

Children == UNION { Range(ChildOrder[d]) : d \in DirNames }

ChildPaths == { ChildPath(c) : c \in Children }

\* names directly under the root that a snapshot may hold
TopNames ==
  Range(PRIORITY_FILES)
    \cup { "main.py", "app.py", "run.py", "index.js", "main.go", "cli.py" }
    \cup { "pyproject.toml", "setup.py", "package.json", "go.mod",
           "Makefile", "Dockerfile", ".env.example" }

\* names directly under the root that no rule of the classifier matches
OtherNames == { "data.bin", "notes.txt", "LICENSE" }

AllPaths == TopNames \cup OtherNames \cup DirNames \cup ChildPaths

\* what a path is: "vanishing" exists while the classifier runs and is gone
\* when it is read; "denied" exists and cannot be opened
Kinds == { "absent", "file", "dir", "denied", "vanishing" }

\* (size in bytes, length in characters once decoded) of a regular file
FileShapes ==
  { [size |-> 0, chars |-> 0],
    [size |-> 50, chars |-> 50],
    [size |-> MAX_FILE_SIZE, chars |-> MAX_FILE_SIZE],
    [size |-> MAX_FILE_SIZE + 1, chars |-> MAX_FILE_SIZE + 1],
    [size |-> 2 * MAX_FILE_SIZE, chars |-> 2 * MAX_FILE_SIZE],
    [size |-> 2 * MAX_FILE_SIZE, chars |-> MAX_FILE_SIZE] }

DirShape == [size |-> 4096, chars |-> 0]

\* lengths of the rendered tree (len(generate_file_tree(repo_path)))
TreeLens ==
  { 30,
    MAX_TOTAL_CONTENT - MAX_FILE_SIZE,
    MAX_TOTAL_CONTENT - 50,
    MAX_TOTAL_CONTENT - 20,
    MAX_TOTAL_CONTENT,
    MAX_TOTAL_CONTENT + 1000 }

\* a snapshot: kind and shape of every path, the listing order of the
\* directories, and the length of the tree rendered from it
MkFs(kind, shape, reversed, tree_len) ==
  [ kind |-> [ p \in AllPaths |->
                 IF p \in DirNames
                   THEN IF \E c \in Range(ChildOrder[p]) : kind[ChildPath(c)] # "absent"
                          THEN "dir" ELSE "absent"
                   ELSE kind[p] ],
    shape |-> [ p \in AllPaths |->
                 IF p \in DirNames THEN DirShape ELSE shape[p] ],
    reversed |-> reversed,
    tree_len |-> tree_len ]

VARIABLES
  fs,             \* the filesystem snapshot
  pc,             \* position in summarize_repo: find, build, category, files,
                  \* endcat, done, raised
  key_files,      \* find_key_files' result: a dict, as its (key, list) pairs
  sections,       \* build_repo_context: sections
  total_size,     \* build_repo_context: total_size
  ci,             \* index of the current item of key_files.items()
  fi,             \* index of the current file of the category
  file_contents,  \* build_repo_context: file_contents of the category
  reads,          \* history: every read_file_safe call, with total_size then
  document,       \* the returned string, as its sections; << >> before
  tree_root,      \* the directory generate_file_tree is called on
  tree_pc,        \* position of the generate_file_tree call: idle, call, done
  tree_out        \* what the call gave: its lines, or that it raised

VARIABLES
  rf_pc,          \* position in read_files: idle, check, parse, loop,
                  \* summary, done, exit, raised
  rf_root,        \* what --repo-path names: dir, file or absent
  rf_args,        \* --files, split at the commas, and --line-numbers
  rf_fs,          \* what each path under the root is
  file_list,      \* read_files: file_list
  rf_i,           \* index in file_list of the path the loop is at
  content_parts,  \* read_files: content_parts, as its blocks
  files_read,     \* read_files: files_read
  files_missing,  \* read_files: files_missing
  rf_output       \* final_content as echoed or written; << >> before

VARIABLES
  sr_pc,          \* position in summarize_repo: idle, start, try, scan, build,
                  \* ask, save, finally, ended
  sr_args,        \* the options and what they name
  task_id,        \* summarize_repo: task_id ("none" for None)
  temp_dir,       \* the temporary directory: none, exists or deleted
  clone,          \* where the clone is: none, temp or artifacts
  sr_work,        \* history: the work done, in order
  sr_exit         \* how the command ended: running, ok or error

VARIABLES
  ch_pc,          \* position in chain: idle, loop, ended
  ch_agents,      \* chain: agents
  ch_ws,          \* the agents whose workspace directory exists
  ch_i,           \* chain: i, the step the loop is at
  context_files,  \* chain: context_files, as the names of the files
  ch_files,       \* the files of the output directory, by name
  ch_calls,       \* history: every call_llm, with its agent and message
  ch_exit         \* how the command ended: running, ok or error

VARIABLES
  other,          \* the locals of a second build_repo_context call that is
                  \* not running now; << >> when there is none
  interleaved     \* history: control went from a call in progress to the
                  \* other call in progress

build_vars == << fs, pc, key_files, sections, total_size, ci, fi, file_contents,
                 reads, document >>

tree_vars == << tree_root, tree_pc, tree_out >>

rf_vars == << rf_pc, rf_root, rf_args, rf_fs, file_list, rf_i, content_parts,
              files_read, files_missing, rf_output >>

sr_vars == << sr_pc, sr_args, task_id, temp_dir, clone, sr_work, sr_exit >>

ch_vars == << ch_pc, ch_agents, ch_ws, ch_i, context_files, ch_files, ch_calls, ch_exit >>

call_vars == << other, interleaved >>

vars == << build_vars, tree_vars, rf_vars, sr_vars, ch_vars, call_vars >>

\* the variables that a step of one command leaves alone
not_build_vars == << tree_vars, rf_vars, sr_vars, ch_vars, call_vars >>
not_tree_vars == << build_vars, rf_vars, sr_vars, ch_vars, call_vars >>
not_rf_vars == << build_vars, tree_vars, sr_vars, ch_vars, call_vars >>
not_sr_vars == << build_vars, tree_vars, rf_vars, ch_vars, call_vars >>
not_ch_vars == << build_vars, tree_vars, rf_vars, sr_vars, call_vars >>

\* no generate_file_tree call of its own, no read_files command
TreeIdle ==
  /\ tree_root = << >>
  /\ tree_pc = "idle"
  /\ tree_out = << >>

\* no chain command, no second call
ChIdle ==
  /\ other = << >>
  /\ interleaved = FALSE
  /\ ch_pc = "idle"
  /\ ch_agents = << >>
  /\ ch_ws = {}
  /\ ch_i = 0
  /\ context_files = << >>
  /\ ch_files = << >>
  /\ ch_calls = << >>
  /\ ch_exit = "running"

SrIdle ==
  /\ sr_pc = "idle"
  /\ sr_args = << >>
  /\ task_id = "none"
  /\ temp_dir = "none"
  /\ clone = "none"
  /\ sr_work = << >>
  /\ sr_exit = "running"

RfIdle ==
  /\ rf_pc = "idle"
  /\ rf_root = "absent"
  /\ rf_args = << >>
  /\ rf_fs = << >>
  /\ file_list = << >>
  /\ rf_i = 0
  /\ content_parts = << >>
  /\ files_read = 0
  /\ files_missing = 0
  /\ rf_output = << >>


\* ------------------------------------------------------------------------
\* find_key_files (github.py:213-269)
\* ------------------------------------------------------------------------
\* path.exists()
Exists(f, p) == p \in AllPaths /\ f.kind[p] # "absent"

\* path.is_dir()
IsDir(f, p) == p \in AllPaths /\ f.kind[p] = "dir"

\* the entries of directory d in the order the directory lists them
ListDir(f, d) ==
  IF IsDir(f, d) /\ d \in DirNames
    THEN SelectSeq(IF f.reversed THEN Reverse(ChildOrder[d]) ELSE ChildOrder[d],
                   LAMBDA c : Exists(f, ChildPath(c)))
    ELSE << >>

\* list(dir_path.glob("*." + ext)): the matching entries, in listing order
Glob(f, d, ext) ==
  LET hits == SelectSeq(ListDir(f, d), LAMBDA c : c.ext = ext)
  IN  [ i \in 1..Len(hits) |-> ChildPath(hits[i]) ]

\* a dict, as the sequence of its items in insertion order
DictKeys(d) == [ i \in 1..Len(d) |-> d[i].key ]

DictGet(d, k) == d[CHOOSE i \in 1..Len(d) : d[i].key = k].files

\* d[k].extend(xs): the key keeps its place
DictExtend(d, k, xs) ==
  [ i \in 1..Len(d) |-> IF d[i].key = k THEN [d[i] EXCEPT !.files = @ \o xs] ELSE d[i] ]

\* the dict literal in the order the classifier fills it: documentation,
\* config, entry points, core
DiscoveryOrderResult ==
  << [key |-> "documentation", files |-> << >>],
     [key |-> "config", files |-> << >>],
     [key |-> "entry_points", files |-> << >>],
     [key |-> "core", files |-> << >>] >>

\* result = {"documentation": [], "entry_points": [], "config": [], "core": []}
EmptyResult ==
  << [key |-> "documentation", files |-> << >>],
     [key |-> "entry_points", files |-> << >>],
     [key |-> "config", files |-> << >>],
     [key |-> "core", files |-> << >>] >>

\* no clipping at all
NoCategoryLimit(files) == files

\* result[category][:MAX_FILES_PER_CATEGORY]
LimitCategory(files) == Take(files, MAX_FILES_PER_CATEGORY)

\* the documentation candidates, in discovery order, before clipping
FindDocumentation(f) ==
  SelectSeq(PRIORITY_FILES, LAMBDA name : Exists(f, name))
    \o (IF Exists(f, "docs") THEN Take(Glob(f, "docs", "md"), 3) ELSE << >>)

FindConfig(f) == SelectSeq(CONFIG_FILES, LAMBDA name : Exists(f, name))

\* no name of ENTRY_POINT_PATTERNS holds a '*', so none is skipped
FindEntryPoints(f) == SelectSeq(ENTRY_POINT_PATTERNS, LAMBDA name : Exists(f, name))

\* the core loops nested the other way: extension first, then directory
FindCoreExtensionFirst(f) ==
  Flatten([ j \in 1..Len(core_patterns) |->
    Flatten([ i \in 1..Len(core_dirs) |->
      IF Exists(f, core_dirs[i]) /\ IsDir(f, core_dirs[i])
        THEN Take(Glob(f, core_dirs[i], core_patterns[j]), 2)
        ELSE << >> ]) ])

\* the core candidates with the entry points left out (a deduplication)
FindCoreWithoutEntryPoints(f) ==
  SelectSeq(
    Flatten([ i \in 1..Len(core_dirs) |->
      IF Exists(f, core_dirs[i]) /\ IsDir(f, core_dirs[i])
        THEN Flatten([ j \in 1..Len(core_patterns) |->
                         Take(Glob(f, core_dirs[i], core_patterns[j]), 2) ])
        ELSE << >> ]),
    LAMBDA p : p \notin Range(ENTRY_POINT_PATTERNS))

FindCore(f) ==
  Flatten([ i \in 1..Len(core_dirs) |->
    IF Exists(f, core_dirs[i]) /\ IsDir(f, core_dirs[i])
      THEN Flatten([ j \in 1..Len(core_patterns) |->
                       Take(Glob(f, core_dirs[i], core_patterns[j]), 2) ])
      ELSE << >> ])

find_key_files(f) ==
  LET r1 == DictExtend(EmptyResult, "documentation", FindDocumentation(f))
      r2 == DictExtend(r1, "config", FindConfig(f))
      r3 == DictExtend(r2, "entry_points", FindEntryPoints(f))
      r4 == DictExtend(r3, "core", FindCore(f))
  IN  [ i \in 1..Len(r4) |-> [r4[i] EXCEPT !.files = LimitCategory(@)] ]

\* ------------------------------------------------------------------------
\* read_file_safe (github.py:272-290)
\* ------------------------------------------------------------------------
Digits(n) == Len(ToString(n))

\* what the path is when it is read
KindAtRead(f, p) == IF f.kind[p] = "vanishing" THEN "absent" ELSE f.kind[p]

\* path.stat().st_size
Stat(f, p) ==
  IF KindAtRead(f, p) = "absent"
    THEN [raised |-> TRUE, exc |-> "FileNotFoundError", size |-> 0]
    ELSE [raised |-> FALSE, exc |-> "", size |-> f.shape[p].size]

\* path.read_text(encoding="utf-8", errors="replace"): the decoded length
ReadText(f, p) ==
  CASE KindAtRead(f, p) = "file" -> [raised |-> FALSE, exc |-> "", chars |-> f.shape[p].chars]
    [] KindAtRead(f, p) = "dir" -> [raised |-> TRUE, exc |-> "IsADirectoryError", chars |-> 0]
    [] KindAtRead(f, p) = "denied" -> [raised |-> TRUE, exc |-> "PermissionError", chars |-> 0]
    [] OTHER -> [raised |-> TRUE, exc |-> "FileNotFoundError", chars |-> 0]

\* str(e) of the OSError raised for the path
ExcText(exc, p) ==
  (CASE exc = "FileNotFoundError" -> "[Errno 2] No such file or directory: '"
     [] exc = "IsADirectoryError" -> "[Errno 21] Is a directory: '"
     [] OTHER -> "[Errno 13] Permission denied: '")
    \o RepoPath \o "/" \o p \o "'"

\* a content: characters of the reader's truncation header, of file text and
\* of error note, in this order, and whether the budget note follows them
Content(header, body, error) ==
  [header |-> header, body |-> body, error |-> error, note |-> FALSE]

\* f"[File truncated - {size} bytes, showing first {max_size}]\n"
TruncationHeaderLen(size, max_size) ==
  Len("[File truncated - ") + Digits(size) + Len(" bytes, showing first ")
    + Digits(max_size) + Len("]") + 1

\* f"[Error reading file: {e}]"
ErrorNoteLen(exc, p) == Len("[Error reading file: ") + Len(ExcText(exc, p)) + Len("]")

\* except PermissionError: every other error escapes
CatchesPermissionOnly(exc) == exc = "PermissionError"

\* except Exception: every OSError is caught
Catches(exc) == exc \in { "FileNotFoundError", "IsADirectoryError", "PermissionError" }

\* the try body without the truncation header on an oversized file
ReadBodyWithoutHeader(f, p, max_size) ==
  LET st == Stat(f, p)
      tx == ReadText(f, p)
  IN  IF st.raised THEN [raised |-> TRUE, exc |-> st.exc, content |-> Content(0, 0, 0)]
      ELSE IF tx.raised THEN [raised |-> TRUE, exc |-> tx.exc, content |-> Content(0, 0, 0)]
      ELSE [raised |-> FALSE, exc |-> "", content |-> Content(0, Min(tx.chars, max_size), 0)]

\* the try body (github.py:284-288)
ReadBody(f, p, max_size) ==
  LET st == Stat(f, p)
      tx == ReadText(f, p)
  IN  IF st.raised THEN [raised |-> TRUE, exc |-> st.exc, content |-> Content(0, 0, 0)]
      ELSE IF tx.raised THEN [raised |-> TRUE, exc |-> tx.exc, content |-> Content(0, 0, 0)]
      ELSE IF st.size > max_size
        THEN [raised |-> FALSE, exc |-> "",
              content |-> Content(TruncationHeaderLen(st.size, max_size),
                                  Min(tx.chars, max_size), 0)]
        ELSE [raised |-> FALSE, exc |-> "", content |-> Content(0, tx.chars, 0)]

read_file_safe(f, p, max_size) ==
  LET r == ReadBody(f, p, max_size)
  IN  IF r.raised /\ Catches(r.exc)
        THEN [raised |-> FALSE, exc |-> "", content |-> Content(0, 0, ErrorNoteLen(r.exc, p))]
        ELSE r


\* ------------------------------------------------------------------------
\* build_repo_context (github.py:293-339)
\* ------------------------------------------------------------------------
\* "\n[Content truncated due to size limits]"
BudgetNoteLen == 1 + Len("[Content truncated due to size limits]")

\* len(content) of a content the reader returned
ContentLen(c) == c.header + c.body + c.error

\* the characters of a content as they stand inside the fenced block
EmbeddedLen(c) == ContentLen(c) + (IF c.note THEN BudgetNoteLen ELSE 0)

\* content[:n]
Slice(c, n) ==
  LET h == Min(c.header, Max(n, 0))
      b == Min(c.body, Max(n, 0) - h)
      e == Min(c.error, Max(n, 0) - h - b)
  IN  [header |-> h, body |-> b, error |-> e, note |-> c.note]

\* category.replace("_", " ").title()
CategoryTitle(category) ==
  CASE category = "documentation" -> "Documentation"
    [] category = "entry_points" -> "Entry Points"
    [] category = "config" -> "Config"
    [] category = "core" -> "Core"

\* f"## File Tree\n\n```\n{tree}\n```"
TreeSection(f) == [title |-> "File Tree", len |-> f.tree_len, blocks |-> << >>]

\* f"## {category_title}\n\n" + "\n\n".join(file_contents)
CategorySection(category, blocks) ==
  [title |-> CategoryTitle(category), len |-> 0, blocks |-> blocks]

\* the loop guard with > for >=
BudgetOverrun(total) == total > MAX_TOTAL_CONTENT

\* if total_size >= MAX_TOTAL_CONTENT: break
BudgetReached(total) == total >= MAX_TOTAL_CONTENT

\* the cut without content_size = remaining: the whole length is charged
FitToBudgetChargingAll(content, total) ==
  IF total + ContentLen(content) > MAX_TOTAL_CONTENT
    THEN [content |-> [Slice(content, MAX_TOTAL_CONTENT - total) EXCEPT !.note = TRUE],
          content_size |-> ContentLen(content)]
    ELSE [content |-> content, content_size |-> ContentLen(content)]

\* the cut without total_size += content_size: nothing is charged for it
FitToBudgetChargingNothing(content, total) ==
  IF total + ContentLen(content) > MAX_TOTAL_CONTENT
    THEN [content |-> [Slice(content, MAX_TOTAL_CONTENT - total) EXCEPT !.note = TRUE],
          content_size |-> 0]
    ELSE [content |-> content, content_size |-> ContentLen(content)]

\* github.py:326-331: the content to embed and the size to charge for it
FitToBudget(content, total) ==
  IF total + ContentLen(content) > MAX_TOTAL_CONTENT
    THEN LET remaining == MAX_TOTAL_CONTENT - total
         IN  [content |-> [Slice(content, remaining) EXCEPT !.note = TRUE],
              content_size |-> remaining]
    ELSE [content |-> content, content_size |-> ContentLen(content)]

\* the files of the current category
CurrentCategory == key_files[ci].key
CurrentFiles == key_files[ci].files

\* summarize_repo: key_files = find_key_files(repo_path)
FindKeyFiles ==
  /\ pc = "find"
  /\ key_files' = find_key_files(fs)
  /\ pc' = "build"
  /\ UNCHANGED not_build_vars
  /\ UNCHANGED << fs, sections, total_size, ci, fi, file_contents, reads, document >>

\* the tree section appended without total_size += len(tree)
AppendTreeUncharged ==
  /\ pc = "build"
  /\ sections' = << TreeSection(fs) >>
  /\ total_size' = 0
  /\ ci' = 1
  /\ pc' = "category"
  /\ UNCHANGED not_build_vars
  /\ UNCHANGED << fs, key_files, fi, file_contents, reads, document >>

\* lines 304-310: the tree section, charged in full
AppendTree ==
  /\ pc = "build"
  /\ sections' = << TreeSection(fs) >>
  /\ total_size' = 0 + fs.tree_len
  /\ ci' = 1
  /\ pc' = "category"
  /\ UNCHANGED not_build_vars
  /\ UNCHANGED << fs, key_files, fi, file_contents, reads, document >>

\* lines 314-315: if not files: continue
SkipEmptyCategory ==
  /\ pc = "category"
  /\ ci <= Len(key_files)
  /\ CurrentFiles = << >>
  /\ ci' = ci + 1
  /\ UNCHANGED not_build_vars
  /\ UNCHANGED << fs, pc, key_files, sections, total_size, fi, file_contents, reads,
                  document >>

\* lines 317-318: file_contents = []
EnterCategory ==
  /\ pc = "category"
  /\ ci <= Len(key_files)
  /\ CurrentFiles # << >>
  /\ file_contents' = << >>
  /\ fi' = 1
  /\ pc' = "files"
  /\ UNCHANGED not_build_vars
  /\ UNCHANGED << fs, key_files, sections, total_size, ci, reads, document >>

\* lines 321-322: break
BudgetBreak ==
  /\ pc = "files"
  /\ fi <= Len(CurrentFiles)
  /\ BudgetReached(total_size)
  /\ pc' = "endcat"
  /\ UNCHANGED not_build_vars
  /\ UNCHANGED << fs, key_files, sections, total_size, ci, fi, file_contents, reads,
                  document >>

\* a file whose path was read before is passed over (a deduplication)
AddFileSkippingSeen ==
  /\ pc = "files"
  /\ fi <= Len(CurrentFiles)
  /\ ~BudgetReached(total_size)
  /\ LET file_path == CurrentFiles[fi]
         r == read_file_safe(fs, file_path, MAX_FILE_SIZE)
         fit == FitToBudget(r.content, total_size)
     IN  IF \E i \in 1..Len(reads) : reads[i].path = file_path
           THEN /\ fi' = fi + 1
                /\ UNCHANGED << reads, file_contents, total_size, pc >>
           ELSE /\ reads' = Append(reads, [path |-> file_path, category |-> CurrentCategory,
                                           before |-> total_size])
                /\ file_contents' =
                     Append(file_contents, [path |-> file_path, content |-> fit.content])
                /\ total_size' = total_size + fit.content_size
                /\ fi' = fi + 1
                /\ pc' = pc
  /\ UNCHANGED not_build_vars
  /\ UNCHANGED << fs, key_files, sections, ci, document >>

\* lines 324-334: read the file, fit it to the budget, append its block
AddFile ==
  /\ pc = "files"
  /\ fi <= Len(CurrentFiles)
  /\ ~BudgetReached(total_size)
  /\ LET file_path == CurrentFiles[fi]
         r == read_file_safe(fs, file_path, MAX_FILE_SIZE)
         fit == FitToBudget(r.content, total_size)
     IN  /\ reads' = Append(reads, [path |-> file_path, category |-> CurrentCategory,
                                    before |-> total_size])
         /\ IF r.raised
              THEN /\ pc' = "raised"
                   /\ UNCHANGED << file_contents, total_size, fi >>
              ELSE /\ file_contents' =
                        Append(file_contents, [path |-> file_path, content |-> fit.content])
                   /\ total_size' = total_size + fit.content_size
                   /\ fi' = fi + 1
                   /\ pc' = pc
  /\ UNCHANGED not_build_vars
  /\ UNCHANGED << fs, key_files, sections, ci, document >>

\* the for loop over files ends
FilesExhausted ==
  /\ pc = "files"
  /\ fi > Len(CurrentFiles)
  /\ pc' = "endcat"
  /\ UNCHANGED not_build_vars
  /\ UNCHANGED << fs, key_files, sections, total_size, ci, fi, file_contents, reads,
                  document >>

\* lines 336-337: the section of a category that has blocks
EndCategory ==
  /\ pc = "endcat"
  /\ sections' = IF file_contents # << >>
                   THEN Append(sections, CategorySection(CurrentCategory, file_contents))
                   ELSE sections
  /\ ci' = ci + 1
  /\ pc' = "category"
  /\ UNCHANGED not_build_vars
  /\ UNCHANGED << fs, key_files, total_size, fi, file_contents, reads, document >>

\* line 339: return "\n\n".join(sections)
Return ==
  /\ pc = "category"
  /\ ci > Len(key_files)
  /\ document' = sections
  /\ pc' = "done"
  /\ UNCHANGED not_build_vars
  /\ UNCHANGED << fs, key_files, sections, total_size, ci, fi, file_contents, reads >>

\* ------------------------------------------------------------------------
\* Specifications
\* ------------------------------------------------------------------------
\* what a present path of a snapshot may be
Attrs ==
  { [kind |-> "file", shape |-> s] : s \in FileShapes }
    \cup { [kind |-> k, shape |-> DirShape] : k \in { "dir", "denied", "vanishing" } }

\* the state of summarize_repo before find_key_files is called
Start(f) ==
  /\ fs = f
  /\ pc = "find"
  /\ key_files = << >>
  /\ sections = << >>
  /\ total_size = 0
  /\ ci = 0
  /\ fi = 0
  /\ file_contents = << >>
  /\ reads = << >>
  /\ document = << >>
  /\ TreeIdle
  /\ RfIdle
  /\ SrIdle
  /\ ChIdle

\* candidate paths of the assembly specification: every category, a path in
\* two categories, a docs/ file
ModeAPaths == { "README.md", "main.py", "src/main.py", "package.json", "docs/guide.md" }

\* snapshots of few files, of any kind and shape, under a tree of any length
Init ==
  \E present \in SUBSET ModeAPaths :
    /\ Cardinality(present) <= MaxFiles
    /\ \E attr \in [present -> Attrs], t \in TreeLens :
         Start(MkFs([p \in AllPaths |-> IF p \in present THEN attr[p].kind ELSE "absent"],
                    [p \in AllPaths |-> IF p \in present THEN attr[p].shape ELSE DirShape],
                    FALSE, t))

Next ==
  \/ FindKeyFiles
  \/ AppendTree
  \/ SkipEmptyCategory
  \/ EnterCategory
  \/ BudgetBreak
  \/ AddFile
  \/ FilesExhausted
  \/ EndCategory
  \/ Return

Spec == Init /\ [][Next]_vars

\* the snapshots of Init whose tree is shorter than the budget
InitTreeFits == Init /\ fs.tree_len < MAX_TOTAL_CONTENT

\* assembly under a tree that leaves budget for files
SpecTreeFits == InitTreeFits /\ [][Next]_vars

\* repo_path.name
RepoName == "repo"

\* name.startswith('.') for the names directly under the root
HiddenTopNames == { ".env.example" }

\* len(generate_file_tree(repo_path)) for a root that holds one file: the
\* root line and, unless the file is hidden, a newline and "└── " + name
OneFileTreeLen(name) ==
  Len(RepoName) + Len("/")
    + (IF name \in HiddenTopNames THEN 0 ELSE 1 + 4 + Len(name))

\* the shapes of a file of 2 * MAX_FILE_SIZE bytes
DoubleCapShapes == { s \in FileShapes : s.size = 2 * MAX_FILE_SIZE }

\* roots that hold exactly one regular file, of 2 * MAX_FILE_SIZE bytes
OneFileRoots ==
  { MkFs([p \in AllPaths |-> IF p = name THEN "file" ELSE "absent"],
         [p \in AllPaths |-> IF p = name THEN shape ELSE DirShape],
         FALSE, OneFileTreeLen(name)) :
      name \in TopNames \cup OtherNames, shape \in DoubleCapShapes }

InitOneFile == \E f \in OneFileRoots : Start(f)

\* sizes of the files of the small repository
SmallSizes == { 0, 50, 100, 200 }

\* len(generate_file_tree(repo_path)) for a root that holds README.md,
\* package.json and src/main.py: "repo/", "├── src/", "│   └── main.py",
\* "├── package.json", "└── README.md", joined by newlines
SmallRepoTreeLen ==
  Len(RepoName) + Len("/")
    + 1 + 4 + Len("src") + Len("/")
    + 1 + 4 + 4 + Len("main.py")
    + 1 + 4 + Len("package.json")
    + 1 + 4 + Len("README.md")

SmallRepoPaths == { "README.md", "src/main.py", "package.json" }

\* roots that hold exactly README.md, src/main.py and package.json, regular
\* text files of small sizes
SmallRepoRoots ==
  { MkFs([p \in AllPaths |-> IF p \in SmallRepoPaths THEN "file" ELSE "absent"],
         [p \in AllPaths |->
            IF p \in SmallRepoPaths
              THEN [size |-> size[p], chars |-> size[p]] ELSE DirShape],
         FALSE, SmallRepoTreeLen) :
      size \in [SmallRepoPaths -> SmallSizes] }

InitSmallRepo == \E f \in SmallRepoRoots : Start(f)

\* the documentation files and the entry point of the large root
LargeRootPaths == Range(Take(PRIORITY_FILES, MAX_FILES_PER_CATEGORY)) \cup { "main.py" }

\* len(generate_file_tree(repo_path)) for a root that holds these six files
LargeRootTreeLen ==
  Len(RepoName) + Len("/")
    + 1 + 4 + Len("README.md")
    + 1 + 4 + Len("README.rst")
    + 1 + 4 + Len("README.txt")
    + 1 + 4 + Len("README")
    + 1 + 4 + Len("CONTRIBUTING.md")
    + 1 + 4 + Len("main.py")

\* roots that hold five documentation files and main.py, regular files of
\* one shape of MAX_FILE_SIZE bytes or more, enough to use up the budget
LargeRoots ==
  { MkFs([p \in AllPaths |-> IF p \in LargeRootPaths THEN "file" ELSE "absent"],
         [p \in AllPaths |-> IF p \in LargeRootPaths THEN shape ELSE DirShape],
         FALSE, LargeRootTreeLen) :
      shape \in { s \in FileShapes : s.size >= MAX_FILE_SIZE } }

InitLargeRoot == \E f \in LargeRoots : Start(f)

\* build_repo_context on the roots of the scenarios
SpecScenarios == (InitOneFile \/ InitSmallRepo \/ InitLargeRoot) /\ [][Next]_vars

\* paths a snapshot of the classifier specification may hold
ClassifyPaths == TopNames \cup ChildPaths

\* base snapshots: empty, full, root files only, directories only
ClassifyBases == { {}, ClassifyPaths, TopNames, ChildPaths }

SymDiff(a, b) == (a \ b) \cup (b \ a)

\* the subsets of S of at most k elements
RECURSIVE SubsetsUpTo(_, _)
SubsetsUpTo(S, k) ==
  IF k = 0 THEN { {} }
  ELSE LET smaller == SubsetsUpTo(S, k - 1)
       IN  smaller \cup { t \cup { x } : t \in smaller, x \in S }

\* snapshots of regular files near a base snapshot, listed in either order
InitClassify ==
  \E base \in ClassifyBases, delta \in SubsetsUpTo(ClassifyPaths, MaxDelta),
     rev \in BOOLEAN :
    /\ Start(MkFs([p \in AllPaths |->
                     IF p \in SymDiff(base, delta) THEN "file" ELSE "absent"],
                  [p \in AllPaths |-> [size |-> 50, chars |-> 50]],
                  rev, 30))

\* the classifier alone
SpecClassify == InitClassify /\ [][FindKeyFiles]_vars


\* ------------------------------------------------------------------------
\* Reading the document
\* ------------------------------------------------------------------------
RECURSIVE SumSeq(_)
SumSeq(s) == IF s = << >> THEN 0 ELSE Head(s) + SumSeq(Tail(s))

\* the titles of the sections of a document, in order
Titles(doc) == [ i \in 1..Len(doc) |-> doc[i].title ]

\* every file block of a document, in order
Blocks(doc) == Flatten([ i \in 1..Len(doc) |-> doc[i].blocks ])

\* the content of a document: the tree text and the text inside every fence
DocContentLen(doc) ==
  SumSeq([ i \in 1..Len(doc) |-> doc[i].len ])
    + SumSeq([ i \in 1..Len(Blocks(doc)) |-> EmbeddedLen(Blocks(doc)[i].content) ])

\* the section of a category in a document, << >> when it has none
SectionBlocks(doc, category) ==
  IF \E i \in 1..Len(doc) : doc[i].title = CategoryTitle(category)
    THEN doc[CHOOSE i \in 1..Len(doc) : doc[i].title = CategoryTitle(category)].blocks
    ELSE << >>

Categories == { "documentation", "entry_points", "config", "core" }

\* ------------------------------------------------------------------------
\* C1
\* ------------------------------------------------------------------------
\* C1: when assembly ends the consumed counter total_size is at most
\* MAX_TOTAL_CONTENT, also when the tree alone is longer than that.
\* Violated: the tree's length is added to total_size unconditionally.
C1_ConsumedWithinCap == pc = "done" => total_size <= MAX_TOTAL_CONTENT

\* ------------------------------------------------------------------------
\* C2
\* ------------------------------------------------------------------------
\* C2: the content placed in the returned document (tree text plus the text
\* inside every file's fence, budget note included) sums to at most
\* MAX_TOTAL_CONTENT.  Violated, also under a tree shorter than the budget:
\* the budget note is appended after the cut to the remaining budget.
C2_DocContentWithinCap == pc = "done" => DocContentLen(document) <= MAX_TOTAL_CONTENT

\* ------------------------------------------------------------------------
\* C3
\* ------------------------------------------------------------------------
\* C3: for every file block, the text read_file_safe returned for it has at
\* most MAX_FILE_SIZE characters.  Violated: for a file larger than
\* MAX_FILE_SIZE the reader returns its "[File truncated ...]" header followed
\* by MAX_FILE_SIZE characters of the file.
C3_ReaderTextWithinPerFileCap ==
  \A i \in 1..Len(reads) :
    ContentLen(read_file_safe(fs, reads[i].path, MAX_FILE_SIZE).content) <= MAX_FILE_SIZE


\* ------------------------------------------------------------------------
\* C4
\* ------------------------------------------------------------------------
\* C4: each of the four lists find_key_files returns has at most
\* MAX_FILES_PER_CATEGORY entries, however many matching files exist.
C4_CategoryCap ==
  pc # "find" =>
    /\ Range(DictKeys(key_files)) = Categories
    /\ \A i \in 1..Len(key_files) : Len(key_files[i].files) <= MAX_FILES_PER_CATEGORY

\* the classifier has run on a snapshot where every category has more
\* matching files than the cap
C4_Witness ==
  /\ pc = "build"
  /\ Len(FindDocumentation(fs)) > MAX_FILES_PER_CATEGORY
  /\ Len(FindEntryPoints(fs)) > MAX_FILES_PER_CATEGORY
  /\ Len(FindConfig(fs)) > MAX_FILES_PER_CATEGORY
  /\ Len(FindCore(fs)) > MAX_FILES_PER_CATEGORY
  /\ \A i \in 1..Len(key_files) : Len(key_files[i].files) = MAX_FILES_PER_CATEGORY

\* ------------------------------------------------------------------------
\* C5
\* ------------------------------------------------------------------------
SectionRank(title) ==
  CASE title = "File Tree" -> 0
    [] title = "Documentation" -> 1
    [] title = "Entry Points" -> 2
    [] title = "Config" -> 3
    [] title = "Core" -> 4
    [] OTHER -> 5

\* C5: the sections stand in the order File Tree, Documentation, Entry
\* Points, Config, Core: the first section is the tree and the titles of the
\* sections emitted so far, and of the returned document, are strictly
\* increasing in this order.
C5_SectionOrder ==
  /\ pc \notin { "find", "build" } =>
       /\ Len(sections) >= 1
       /\ sections[1].title = "File Tree"
       /\ \A i, j \in 1..Len(sections) :
            i < j => SectionRank(sections[i].title) < SectionRank(sections[j].title)
       /\ \A i \in 1..Len(sections) : SectionRank(sections[i].title) <= 4
  /\ pc = "done" => document = sections

\* a returned document with an Entry Points and a Config section, which the
\* classifier fills in the opposite order
C5_Witness ==
  /\ pc = "done"
  /\ \E i, j \in 1..Len(document) :
       /\ i < j
       /\ document[i].title = "Entry Points"
       /\ document[j].title = "Config"


\* ------------------------------------------------------------------------
\* C6
\* ------------------------------------------------------------------------
\* the file blocks emitted so far
NumBlocks ==
  Len(Blocks(sections)) + (IF pc \in { "files", "endcat" } THEN Len(file_contents) ELSE 0)

\* C6: no file is read once the budget is used up (every read_file_safe call
\* was made with total_size below MAX_TOTAL_CONTENT, and total_size never
\* decreases), every read gave one block, no category section is empty, and
\* the returned document titles a category iff one of its files gave a block.
C6_StopAtZeroBudget ==
  /\ \A i \in 1..Len(reads) : reads[i].before < MAX_TOTAL_CONTENT
  /\ \A i \in 1..Len(reads) : reads[i].before <= total_size
  /\ pc # "raised" => NumBlocks = Len(reads)
  /\ \A i \in 2..Len(sections) : sections[i].blocks # << >>
  /\ pc = "done" =>
       \A c \in Categories :
         (\E i \in 1..Len(document) : document[i].title = CategoryTitle(c))
           <=> (\E i \in 1..Len(reads) : reads[i].category = c)

\* assembly ended with the budget used up exactly by a file, a candidate of
\* that file's category left unread, and a later category with candidates
\* and no section
C6_Witness ==
  /\ pc = "done"
  /\ total_size = MAX_TOTAL_CONTENT
  /\ reads # << >>
  /\ \E i \in 1..Len(key_files) :
       /\ key_files[i].files # << >>
       /\ \A j \in 1..Len(document) : document[j].title # CategoryTitle(key_files[i].key)
  /\ \E i \in 1..Len(key_files) :
       /\ SectionBlocks(document, key_files[i].key) # << >>
       /\ Len(SectionBlocks(document, key_files[i].key)) < Len(key_files[i].files)

\* ------------------------------------------------------------------------
\* C7
\* ------------------------------------------------------------------------
\* the block AddFile has just appended
LastBlock == file_contents[Len(file_contents)]

\* C7: a step that reads a file whose returned text is longer than the
\* remaining budget embeds exactly the first `remaining` characters of it
\* followed by the budget note and leaves total_size = MAX_TOTAL_CONTENT; a
\* step that reads a text that fits embeds it whole, without the note, and
\* adds its full length to total_size.
C7_TruncateToRemaining ==
  [][ (pc = "files" /\ Len(reads') = Len(reads) + 1 /\ pc' = "files") =>
        LET text == read_file_safe(fs, reads'[Len(reads')].path, MAX_FILE_SIZE).content
            remaining == MAX_TOTAL_CONTENT - total_size
            block == LastBlock'
        IN  /\ Len(file_contents') = Len(file_contents) + 1
            /\ block.path = reads'[Len(reads')].path
            /\ IF ContentLen(text) > remaining
                 THEN /\ ContentLen(block.content) = remaining
                      /\ block.content.header = Min(text.header, remaining)
                      /\ block.content.body <= text.body
                      /\ block.content.error <= text.error
                      /\ block.content.note
                      /\ total_size' = MAX_TOTAL_CONTENT
                 ELSE /\ block.content = text
                      /\ ~block.content.note
                      /\ total_size' = total_size + ContentLen(text)
    ]_vars

\* a file longer than the positive remaining budget has just been cut: its
\* block holds the note and the budget is used up
C7_Witness ==
  /\ pc = "files"
  /\ file_contents # << >>
  /\ LastBlock.content.note
  /\ LastBlock.content.body > 0
  /\ LastBlock.content.body < fs.shape[LastBlock.path].chars
  /\ total_size = MAX_TOTAL_CONTENT

\* ------------------------------------------------------------------------
\* C8
\* ------------------------------------------------------------------------
\* C8: the tree section is the first section, in full, and its length is
\* charged before any file is read; when the tree is at least
\* MAX_TOTAL_CONTENT long the returned document is the File Tree section
\* alone and no file was read.
C8_TreeFirstAndAlone ==
  /\ pc \notin { "find", "build" } =>
       /\ Len(sections) >= 1
       /\ sections[1] = [title |-> "File Tree", len |-> fs.tree_len, blocks |-> << >>]
       /\ total_size >= fs.tree_len
       /\ \A i \in 1..Len(reads) : reads[i].before >= fs.tree_len
  /\ (pc = "done" /\ fs.tree_len >= MAX_TOTAL_CONTENT) =>
       /\ document = << [title |-> "File Tree", len |-> fs.tree_len, blocks |-> << >>] >>
       /\ reads = << >>

\* assembly ended on a snapshot whose tree is exactly MAX_TOTAL_CONTENT long
\* and whose classifier found candidates in two categories
C8_Witness ==
  /\ pc = "done"
  /\ fs.tree_len = MAX_TOTAL_CONTENT
  /\ Cardinality({ i \in 1..Len(key_files) : key_files[i].files # << >> }) >= 2
  /\ Len(document) = 1

\* ------------------------------------------------------------------------
\* C9
\* ------------------------------------------------------------------------
\* a block that carries a note: reader header, error note or budget note
HasNote(b) == b.content.header > 0 \/ b.content.error > 0 \/ b.content.note

\* C9: in the returned document, every candidate of key_files either has its
\* block or the document holds some note, and every block of a regular file
\* that holds fewer characters than the file carries a note itself.
\* Violated, also under a tree shorter than the budget: once a file that fits
\* uses the budget up exactly, the remaining candidates are left out and
\* nothing in the document says so.
C9_NoSilentLoss ==
  pc = "done" =>
    /\ \A i \in 1..Len(key_files) :
         \A k \in 1..Len(key_files[i].files) :
           \/ k <= Len(SectionBlocks(document, key_files[i].key))
           \/ \E j \in 1..Len(Blocks(document)) : HasNote(Blocks(document)[j])
    /\ \A j \in 1..Len(Blocks(document)) :
         LET b == Blocks(document)[j]
         IN  (KindAtRead(fs, b.path) = "file" /\ b.content.body < fs.shape[b.path].chars)
               => HasNote(b)

\* ------------------------------------------------------------------------
\* C10
\* ------------------------------------------------------------------------
\* C10: read_file_safe never raises (assembly never ends in an exception);
\* a candidate that cannot be read gets a block holding only an error note;
\* and in the returned document every category holds a block for each of its
\* candidates unless the budget is used up.
C10_ReaderNeverRaises ==
  /\ pc # "raised"
  /\ \A i \in 1..Len(reads) :
       ~read_file_safe(fs, reads[i].path, MAX_FILE_SIZE).raised
  /\ \A j \in 1..Len(Blocks(sections)) :
       LET b == Blocks(sections)[j]
       IN  KindAtRead(fs, b.path) # "file" =>
             b.content.error > 0 /\ b.content.body = 0 /\ b.content.header = 0
  /\ pc = "done" =>
       \A i \in 1..Len(key_files) :
         \/ Len(SectionBlocks(document, key_files[i].key)) = Len(key_files[i].files)
         \/ total_size >= MAX_TOTAL_CONTENT

\* a returned document where the block of a candidate that could not be read
\* is followed by the block of a file that was read
C10_Witness ==
  /\ pc = "done"
  /\ \E i, j \in 1..Len(Blocks(document)) :
       /\ i < j
       /\ KindAtRead(fs, Blocks(document)[i].path) # "file"
       /\ Blocks(document)[i].content.error > 0
       /\ Blocks(document)[j].content.body > 0


\* ------------------------------------------------------------------------
\* C11
\* ------------------------------------------------------------------------
\* the truncation notes of a document: reader headers and budget notes
NumTruncationNotes(doc) ==
  Cardinality({ j \in 1..Len(Blocks(doc)) : Blocks(doc)[j].content.header > 0 })
    + Cardinality({ j \in 1..Len(Blocks(doc)) : Blocks(doc)[j].content.note })

NumErrorNotes(doc) ==
  Cardinality({ j \in 1..Len(Blocks(doc)) : Blocks(doc)[j].content.error > 0 })

\* a root that holds exactly one file, of 2 * MAX_FILE_SIZE bytes
IsOneFileRoot ==
  /\ Cardinality({ p \in AllPaths : fs.kind[p] # "absent" }) = 1
  /\ \E p \in TopNames \cup OtherNames :
       fs.kind[p] = "file" /\ fs.shape[p].size = 2 * MAX_FILE_SIZE

\* the one file of a one-file root
TheFile == CHOOSE p \in TopNames \cup OtherNames : fs.kind[p] = "file"

\* the names the classifier looks for directly under the root
RootCandidateNames ==
  (Range(PRIORITY_FILES) \cup Range(ENTRY_POINT_PATTERNS) \cup Range(CONFIG_FILES))
    \cap (TopNames \cup OtherNames)

\* C11 as stated: for a root that holds exactly one file, of
\* 2 * MAX_FILE_SIZE bytes, the returned document holds exactly one
\* truncation note and no error note.  Violated: a file whose name no rule of
\* the classifier matches is never read, and the document holds no note.
C11_ExactlyOneTruncationNote ==
  (pc = "done" /\ IsOneFileRoot) => NumTruncationNotes(document) = 1 /\ NumErrorNotes(document) = 0

\* C11 amended: if the file's name is one the classifier looks for, the
\* document holds one file block, with the reader's truncation header, at
\* most MAX_FILE_SIZE characters of the file, no budget note and no error
\* note; otherwise the document is the File Tree section alone, without any
\* note.
C11_OneNoteIfCandidate ==
  (pc = "done" /\ IsOneFileRoot) =>
    IF TheFile \in RootCandidateNames
      THEN /\ Len(Blocks(document)) = 1
           /\ Blocks(document)[1].path = TheFile
           /\ Blocks(document)[1].content.header > 0
           /\ Blocks(document)[1].content.body = Min(fs.shape[TheFile].chars, MAX_FILE_SIZE)
           /\ NumTruncationNotes(document) = 1
           /\ NumErrorNotes(document) = 0
      ELSE /\ Len(document) = 1
           /\ NumTruncationNotes(document) = 0
           /\ NumErrorNotes(document) = 0

\* the document of a root whose one file is README.md, 204800 characters long
C11_Witness ==
  /\ pc = "done"
  /\ IsOneFileRoot
  /\ TheFile = "README.md"
  /\ fs.shape["README.md"].chars = 2 * MAX_FILE_SIZE
  /\ Len(Blocks(document)) = 1
  /\ Blocks(document)[1].content.header > 0


\* ------------------------------------------------------------------------
\* C12
\* ------------------------------------------------------------------------
\* a root that holds README.md, src/main.py and package.json and nothing else
IsSmallRepoRoot == { p \in AllPaths : fs.kind[p] = "file" } = SmallRepoPaths

\* the root of the scenario: README.md of 50, src/main.py of 200 and
\* package.json of 100 bytes
IsSmallRepoScenario ==
  /\ IsSmallRepoRoot
  /\ fs.shape["README.md"].size = 50
  /\ fs.shape["src/main.py"].size = 200
  /\ fs.shape["package.json"].size = 100

\* a block that holds the whole text of its file and nothing else
WholeBlock(b) ==
  /\ b.content.body = fs.shape[b.path].chars
  /\ b.content.header = 0
  /\ b.content.error = 0
  /\ ~b.content.note

\* C12 as stated: for the scenario root the document has exactly three
\* category sections, each file is included whole, and the file content
\* charged to the budget is 350.  Violated: src/main.py is an entry point
\* and a core file, so there are four category sections and 550 is charged.
C12_ThreeSectionsAnd350 ==
  (pc = "done" /\ IsSmallRepoScenario) =>
    /\ Len(document) = 1 + 3
    /\ \A j \in 1..Len(Blocks(document)) : WholeBlock(Blocks(document)[j])
    /\ total_size - fs.tree_len = 350

\* C12 amended: the document has four category sections, Documentation with
\* README.md, Entry Points with src/main.py, Config with package.json and
\* Core with src/main.py again, every block whole, and the file content
\* charged is the sum of the three sizes plus the size of src/main.py once
\* more: 550 for the scenario.
C12_FourSectionsAnd550 ==
  (pc = "done" /\ IsSmallRepoRoot) =>
    /\ Titles(document) = << "File Tree", "Documentation", "Entry Points", "Config", "Core" >>
    /\ [ j \in 1..Len(Blocks(document)) |-> Blocks(document)[j].path ]
         = << "README.md", "src/main.py", "package.json", "src/main.py" >>
    /\ \A j \in 1..Len(Blocks(document)) : WholeBlock(Blocks(document)[j])
    /\ total_size - fs.tree_len
         = fs.shape["README.md"].size + 2 * fs.shape["src/main.py"].size
             + fs.shape["package.json"].size
    /\ IsSmallRepoScenario => total_size - fs.tree_len = 550

\* the document of the scenario root has been returned
C12_Witness ==
  /\ pc = "done"
  /\ IsSmallRepoScenario
  /\ Len(document) = 5
  /\ total_size = SmallRepoTreeLen + 550


\* ------------------------------------------------------------------------
\* C13
\* ------------------------------------------------------------------------
\* the paths of the blocks of a category's section
SectionPaths(doc, category) ==
  { SectionBlocks(doc, category)[j].path : j \in 1..Len(SectionBlocks(doc, category)) }

RECURSIVE KeepSeq(_, _)
KeepSeq(s, S) ==
  IF s = << >> THEN << >>
  ELSE (IF Head(s) \in S THEN << Head(s) >> ELSE << >>) \o KeepSeq(Tail(s), S)

\* the first n elements of s, or all of s when it has fewer
RECURSIVE FirstN(_, _)
FirstN(s, n) ==
  IF n <= 0 \/ s = << >> THEN << >> ELSE << Head(s) >> \o FirstN(Tail(s), n - 1)

\* the paths that exist in the snapshot
Present == { p \in AllPaths : fs.kind[p] # "absent" }

\* the entries with extension ext directly inside directory d, as paths, in
\* the order the directory lists them
Matching(d, ext) ==
  LET listed == ListDir(fs, d)
      paths == [ i \in 1..Len(listed) |-> ChildPath(listed[i]) ]
  IN  KeepSeq(paths, { ChildPath(c) : c \in { x \in Children : x.dir = d /\ x.ext = ext } })

\* the discovery sequence of each category, as the claim words it
DiscoverySequence(category) ==
  CASE category = "documentation" ->
         KeepSeq(PRIORITY_FILES, Present) \o FirstN(Matching("docs", "md"), 3)
    [] category = "entry_points" -> KeepSeq(ENTRY_POINT_PATTERNS, Present)
    [] category = "config" -> KeepSeq(CONFIG_FILES, Present)
    [] category = "core" ->
         Flatten([ i \in 1..5 |->
           Flatten([ j \in 1..5 |->
             FirstN(Matching(<< "src", "lib", "pkg", "internal", "app" >>[i],
                             << "py", "js", "ts", "go", "rs" >>[j]), 2) ]) ])

\* C14: every list the classifier returns is the first min(5, n) elements
\* of its category's discovery sequence: present priority names in list order
\* then up to 3 markdown files of docs/; present entry points in list order;
\* present config files in list order; for src, lib, pkg, internal, app in
\* this order and py, js, ts, go, rs in this order, up to 2 matching files.
C14_PrefixOfDiscovery ==
  pc # "find" =>
    \A c \in Categories :
      DictGet(key_files, c) = FirstN(DiscoverySequence(c), 5)

\* the classifier has run on a snapshot where the documentation list holds
\* priority names followed by docs/ files, of which docs/ holds more than 3,
\* and where core has more than 5 candidates in two directories
C14_Witness ==
  /\ pc = "build"
  /\ Len(DictGet(key_files, "documentation")) = 5
  /\ DictGet(key_files, "documentation")[2] \in Range(PRIORITY_FILES)
  /\ DictGet(key_files, "documentation")[3] \in ChildPaths
  /\ Len(Matching("docs", "md")) > 3
  /\ Len(DiscoverySequence("core")) > 5
  /\ Matching("lib", "go") # << >>
  /\ fs.reversed

(***************************************************************************)
(* generate_file_tree (github.py:154-210).  A name is the sequence of its  *)
(* characters, so that lower(), startswith('.') and the ordering of names  *)
(* are computed as the code computes them.  A directory entry is a record  *)
(* [name, kind, list, children]: kind is "dir", "file" or "other" (an      *)
(* entry for which both is_dir() and is_file() are false, such as a socket *)
(* or a dangling link); list is what iterdir() does on a directory: "ok",  *)
(* "denied" (PermissionError) or "gone" (the directory was removed after   *)
(* it was listed by its parent: FileNotFoundError); children is the        *)
(* listing in the order iterdir() yields it.                               *)
(***************************************************************************)
Alphabet == << "-", ".", "0", "1", "2", "3", "4", "5", "6", "7", "8", "9", "A", "B", "C", "D", "E",
    "F", "G", "H", "I", "J", "K", "L", "M", "N", "O", "P", "Q", "R", "S", "T", "U", "V", "W", "X",
    "Y", "Z", "_", "a", "b", "c", "d", "e", "f", "g", "h", "i", "j", "k", "l", "m", "n", "o", "p",
    "q", "r", "s", "t", "u", "v", "w", "x", "y", "z" >>
UpperCase == << "A", "B", "C", "D", "E", "F", "G", "H", "I", "J", "K", "L", "M", "N", "O", "P",
    "Q", "R", "S", "T", "U", "V", "W", "X", "Y", "Z" >>
LowerCase == << "a", "b", "c", "d", "e", "f", "g", "h", "i", "j", "k", "l", "m", "n", "o", "p",
    "q", "r", "s", "t", "u", "v", "w", "x", "y", "z" >>
Ord(c) == CHOOSE i \in 1..Len(Alphabet) : Alphabet[i] = c
LowerChar(c) == IF \E i \in 1..Len(UpperCase) : UpperCase[i] = c
  THEN LowerCase[CHOOSE i \in 1..Len(UpperCase) : UpperCase[i] = c]
  ELSE c
lower(name) == [ i \in 1..Len(name) |-> LowerChar(name[i]) ]
startswith_dot(name) == Len(name) > 0 /\ name[1] = "."

skip_dirs == {
  << ".", "g", "i", "t" >>,
  << "n", "o", "d", "e", "_", "m", "o", "d", "u", "l", "e", "s" >>,
  << "_", "_", "p", "y", "c", "a", "c", "h", "e", "_", "_" >>,
  << ".", "v", "e", "n", "v" >>,
  << "v", "e", "n", "v" >>,
  << "d", "i", "s", "t" >>,
  << "b", "u", "i", "l", "d" >>,
  << ".", "t", "o", "x" >>,
  << ".", "p", "y", "t", "e", "s", "t", "_", "c", "a", "c", "h", "e" >>,
  << ".", "m", "y", "p", "y", "_", "c", "a", "c", "h", "e" >>,
  << "t", "a", "r", "g", "e", "t" >>,
  << "v", "e", "n", "d", "o", "r" >> }

is_dir(e) == e.kind = "dir"
is_file(e) == e.kind = "file"

\* str < str in Python: by code point, a proper prefix is smaller
RECURSIVE StrLess(_, _)
StrLess(a, b) ==
  IF b = << >> THEN FALSE
  ELSE IF a = << >> THEN TRUE
  ELSE IF Head(a) # Head(b) THEN Ord(Head(a)) < Ord(Head(b))
  ELSE StrLess(Tail(a), Tail(b))

CaseSensitiveKeyLess(a, b) ==
  IF is_dir(a) # is_dir(b) THEN is_dir(a)
  ELSE StrLess(a.name, b.name)

\* key=lambda x: (not x.is_dir(), x.name.lower()), compared as tuples
KeyLess(a, b) ==
  IF is_dir(a) # is_dir(b) THEN is_dir(a)
  ELSE StrLess(lower(a.name), lower(b.name))

\* sorted() is stable: an entry goes after every entry whose key is not larger
RECURSIVE InsertSorted(_, _)
InsertSorted(e, s) ==
  IF s = << >> THEN << e >>
  ELSE IF KeyLess(e, Head(s)) THEN << e >> \o s
  ELSE << Head(s) >> \o InsertSorted(e, Tail(s))

RECURSIVE sorted(_)
sorted(s) == IF s = << >> THEN << >>
  ELSE InsertSorted(s[Len(s)], sorted(SubSeq(s, 1, Len(s) - 1)))

(***************************************************************************)
(* A line of the tree is kept by its parts: pre is the prefix, one         *)
(* "bar" ("|   ") or "gap" ("    ") per enclosing level; last tells the    *)
(* corner connector from the tee; kind is "root", "dir" (name and a        *)
(* slash), "file" (the bare name) or "more" (the "... (N more files)"      *)
(* line, with N in count).                                                 *)
(***************************************************************************)
Line(pre, last, kind, name, count) ==
  [ pre |-> pre, last |-> last, kind |-> kind, name |-> name, count |-> count ]

Lines(ls) == [ raised |-> FALSE, lines |-> ls ]
Raised == [ raised |-> TRUE, lines |-> << >> ]

FILES_PER_DIR == 10

KeepingSkipDirs(entries) ==
  SelectSeq(entries, LAMBDA e : is_dir(e) /\ ~startswith_dot(e.name))

\* dirs = [e for e in entries if e.is_dir() and e.name not in skip_dirs
\*         and not e.name.startswith('.')]
shown_dirs(entries) ==
  SelectSeq(entries, LAMBDA e :
    is_dir(e) /\ e.name \notin skip_dirs /\ ~startswith_dot(e.name))

\* files = [e for e in entries if e.is_file() and not e.name.startswith('.')]
shown_files(entries) ==
  SelectSeq(entries, LAMBDA e : is_file(e) /\ ~startswith_dot(e.name))

OneLevelLater(depth, max_depth) == depth > max_depth + 1

\* if depth > max_depth: return
beyond_max_depth(depth, max_depth) == depth > max_depth

LastListedEntry(i, all_entries, truncated_files) == i = Len(all_entries)

\* is_last = (i == len(all_entries) - 1) and not truncated_files
is_last_entry(i, all_entries, truncated_files) ==
  i = Len(all_entries) /\ ~truncated_files

\* extension = "    " if is_last else "|   "
extension(is_last) == IF is_last THEN "gap" ELSE "bar"

\* walk(path, prefix, depth): the lines it appends, or that it raised.  A
\* PermissionError of iterdir() is caught and ends the walk of that directory;
\* any other exception leaves walk, every enclosing walk and the call.
RECURSIVE walk(_, _, _, _)
walk(path, prefix, depth, max_depth) ==
  IF beyond_max_depth(depth, max_depth) THEN Lines(<< >>)
  ELSE IF path.list = "denied" THEN Lines(<< >>)
  ELSE IF path.list = "gone" THEN Raised
  ELSE
    LET entries == sorted(path.children)
        dirs == shown_dirs(entries)
        all_files == shown_files(entries)
        truncated_files == Len(all_files) > FILES_PER_DIR
        files == IF truncated_files THEN Take(all_files, FILES_PER_DIR) ELSE all_files
        all_entries == dirs \o files
        OfEntry(i) ==
          LET entry == all_entries[i]
              is_last == is_last_entry(i, all_entries, truncated_files)
          IN IF is_dir(entry)
               THEN LET sub == walk(entry, Append(prefix, extension(is_last)),
                                    depth + 1, max_depth)
                    IN IF sub.raised THEN Raised
                       ELSE Lines(<< Line(prefix, is_last, "dir", entry.name, 0) >>
                                    \o sub.lines)
               ELSE Lines(<< Line(prefix, is_last, "file", entry.name, 0) >>)
        parts == [ i \in 1..Len(all_entries) |-> OfEntry(i) ]
        more == IF truncated_files
                  THEN << Line(prefix, TRUE, "more", << >>,
                               Len(entries) - Len(dirs) - FILES_PER_DIR) >>
                  ELSE << >>
    IN IF \E i \in 1..Len(parts) : parts[i].raised THEN Raised
       ELSE Lines(Flatten([ i \in 1..Len(parts) |-> parts[i].lines ]) \o more)

\* the list of lines that "\n".join(lines) returns as one string
generate_file_tree(repo_path, max_depth) ==
  LET below == walk(repo_path, << >>, 0, max_depth)
  IN IF below.raised THEN Raised
     ELSE Lines(<< Line(<< >>, FALSE, "root", repo_path.name, 0) >> \o below.lines)

\* ------------------------------------------------------------------------
\* Directory trees the renderer is called on
\* ------------------------------------------------------------------------
MaxTreeFiles == 12
MaxChain == 6

File(name) == [ name |-> name, kind |-> "file", list |-> "ok", children |-> << >> ]
Other(name) == [ name |-> name, kind |-> "other", list |-> "ok", children |-> << >> ]
Dir(name, list, children) ==
  [ name |-> name, kind |-> "dir", list |-> list, children |-> children ]

\* names of regular files, in the order a listing yields them
FileNamePool == <<
  << "s", "e", "t", "u", "p", ".", "p", "y" >>,
  << "b", "u", "i", "l", "d" >>,
  << "M", "a", "k", "e", "f", "i", "l", "e" >>,
  << "z", "e", "t", "a", ".", "p", "y" >>,
  << "A", "l", "p", "h", "a", ".", "p", "y" >>,
  << "m", "a", "i", "n", ".", "p", "y" >>,
  << "R", "E", "A", "D", "M", "E", ".", "m", "d" >>,
  << "b", "e", "t", "a", ".", "j", "s" >>,
  << "G", "a", "m", "m", "a", ".", "g", "o" >>,
  << "d", "e", "l", "t", "a", ".", "r", "s" >>,
  << "V", "e", "n", "d", "o", "r" >>,
  << "o", "m", "e", "g", "a", ".", "t", "s" >>,
  << "K", "a", "p", "p", "a", ".", "m", "d" >>,
  << "i", "n", "d", "e", "x", ".", "j", "s" >>,
  << "T", "o", "o", "l", "s", ".", "p", "y" >>,
  << "a", "p", "p", ".", "p", "y" >> >>

PoolFiles(n) == [ i \in 1..Min(n, Len(FileNamePool)) |-> File(FileNamePool[i]) ]

Digit(i) == << ToString(i) >>

\* what a directory may hold besides its listed files
Clutters == { "none", "hidden_file", "hidden_dir", "noise_dir", "other", "all" }

Clutter(c) ==
  (IF c \in { "hidden_file", "all" } THEN << File(<< ".", "e", "n", "v" >>) >> ELSE << >>)
  \o (IF c \in { "hidden_dir", "all" }
        THEN << Dir(<< ".", "g", "i", "t", "h", "u", "b" >>, "ok", << File(<< "c", "i", ".", "y",
    "m", "l" >>) >>) >> ELSE << >>)
  \o (IF c \in { "noise_dir", "all" }
        THEN << Dir(<< "n", "o", "d", "e", "_", "m", "o", "d", "u", "l", "e", "s" >>, "ok",
                    PoolFiles(Len(FileNamePool))
                      \o << Dir(<< "l", "o", "d", "a", "s", "h" >>, "ok", << File(<< "i", "n", "d",
    "e", "x", ".", "j", "s" >>) >>) >>) >>
        ELSE << >>)
  \o (IF c = "all"
        THEN << Dir(<< ".", "g", "i", "t" >>, "ok", << File(<< "H", "E", "A", "D" >>), Dir(<< "o",
    "b", "j", "e", "c", "t", "s" >>, "ok", << File(<< "p", "a", "c", "k" >>) >>) >>) >>
        ELSE << >>)
  \o (IF c \in { "other", "all" } THEN << Other(<< "s", "o", "c", "k" >>) >> ELSE << >>)

\* the order in which iterdir() yields the entries s
Listing(reversed, s) == IF reversed THEN Reverse(s) ELSE s

\* a chain of n nested directories d<i>, each with a file and a cache directory
RECURSIVE Chain(_, _, _)
Chain(i, n, reversed) ==
  IF i > n THEN << >>
  ELSE << Dir(<< "d" >> \o Digit(i), "ok",
              Listing(reversed, << File(<< "f" >> \o Digit(i)),
                      Dir(<< "_", "_", "p", "y", "c", "a", "c", "h", "e", "_", "_" >>, "ok",
    << File(<< "m", ".", "p", "y", "c" >>) >>) >>
                   \o Chain(i + 1, n, reversed))) >>

ListStatuses == { "absent", "ok", "denied", "gone" }

\* the directory whose listing succeeds or fails, beside a sibling file
Sub(status, reversed) ==
  IF status = "absent" THEN << >>
  ELSE << Dir(<< "S", "u", "b" >>, status,
              Listing(reversed, << File(<< "i", "n", "n", "e", "r", ".", "p", "y" >>), Dir(<< "d", "e", "e",
    "p" >>, "ok", << File(<< "l", "e", "a", "f", ".", "p", "y" >>) >>) >>)) >>

\* a directory that holds one directory and no file
Only ==
  Dir(<< "o", "n", "l", "y" >>, "ok",
      << Dir(<< "n", "e", "s", "t" >>, "ok", << File(<< "x", ".", "p", "y" >>) >>) >>)

MkTree(nfiles, clutter, chain, status, in_subdir, reversed) ==
  LET wide == Listing(reversed, Clutter(clutter) \o PoolFiles(nfiles))
      rest == Sub(status, reversed) \o Chain(1, chain, reversed) \o << Only >>
  IN Dir(<< "r", "e", "p", "o" >>, "ok",
         IF in_subdir
           THEN Listing(reversed,
                        << File(<< "L", "I", "C", "E", "N", "S", "E" >>),
                           Dir(<< "p", "k", "g", "s" >>, "ok", wide) >> \o rest)
           ELSE Listing(reversed, wide \o rest))

\* no summarize_repo command
BuildIdle ==
  /\ fs = MkFs([p \in AllPaths |-> "absent"], [p \in AllPaths |-> DirShape], FALSE, 0)
  /\ pc = "idle"
  /\ key_files = << >>
  /\ sections = << >>
  /\ total_size = 0
  /\ ci = 0
  /\ fi = 0
  /\ file_contents = << >>
  /\ reads = << >>
  /\ document = << >>

\* the state before generate_file_tree(root) is called
InitTree ==
  \E nfiles \in 0..MaxTreeFiles, clutter \in Clutters, chain \in 0..MaxChain,
     status \in ListStatuses, in_subdir \in BOOLEAN, reversed \in BOOLEAN :
    /\ BuildIdle
    /\ RfIdle
    /\ SrIdle
    /\ ChIdle
    /\ tree_root = MkTree(nfiles, clutter, chain, status, in_subdir, reversed)
    /\ tree_pc = "call"
    /\ tree_out = << >>

\* tree = generate_file_tree(repo_path)
GenerateFileTree ==
  /\ tree_pc = "call"
  /\ tree_out' = generate_file_tree(tree_root, MAX_TREE_DEPTH)
  /\ tree_pc' = "done"
  /\ UNCHANGED tree_root
  /\ UNCHANGED not_tree_vars

SpecTree == InitTree /\ [][GenerateFileTree]_vars

\* ------------------------------------------------------------------------
\* Reading a rendered tree
\* ------------------------------------------------------------------------
\* number of path components between the root and the entry of a line
Level(l) == IF l.kind = "root" THEN 0 ELSE Len(l.pre) + 1

\* the line of the directory under which line i is drawn
Parent(ls, i) ==
  CHOOSE j \in 1..(i - 1) :
    /\ Level(ls[j]) = Level(ls[i]) - 1
    /\ \A k \in (j + 1)..(i - 1) : Level(ls[k]) >= Level(ls[i])

\* the names from the root down to the entry of line i; for a
\* "... (N more files)" line, down to the directory it is drawn in
RECURSIVE PathOf(_, _)
PathOf(ls, i) ==
  IF i = 1 THEN << >>
  ELSE PathOf(ls, Parent(ls, i))
         \o (IF ls[i].kind = "more" THEN << >> ELSE << ls[i].name >>)

\* the entry a path of names leads to
RECURSIVE NodeAt(_, _)
NodeAt(node, path) ==
  IF path = << >> THEN node
  ELSE NodeAt(CHOOSE c \in Range(node.children) : c.name = Head(path), Tail(path))

\* whether a path of names leads to an entry
RECURSIVE HasNode(_, _)
HasNode(node, path) ==
  \/ path = << >>
  \/ \E c \in Range(node.children) : c.name = Head(path) /\ HasNode(c, Tail(path))

Rendered == tree_pc = "done" /\ ~tree_out.raised
TreeLines == tree_out.lines

\* the lines drawn directly under line i, in output order
ChildLines(ls, i) ==
  SelectSeq([ j \in 1..Len(ls) |-> j ], LAMBDA j : j > 1 /\ Parent(ls, j) = i)

NamesOf(s) == [ i \in 1..Len(s) |-> s[i].name ]

\* C15: no line of the rendered tree is for an entry whose name starts with
\* '.', for a directory named in the noise set, or for anything beneath such a
\* directory, whatever the depth and whatever those directories hold.
C15_NoHiddenOrNoiseLines ==
  Rendered =>
    \A i \in 2..Len(TreeLines) :
      LET p == PathOf(TreeLines, i)
      IN \A k \in 1..Len(p) :
           /\ ~startswith_dot(p[k])
           /\ (k < Len(p) \/ TreeLines[i].kind # "file") => p[k] \notin skip_dirs

\* a root holding a noise directory with more entries than a directory shows,
\* a hidden directory, a hidden file and a regular file named like a noise
\* directory, beside nested directories holding cache directories
C15_Witness ==
  /\ Rendered
  /\ \E c \in Range(tree_root.children) :
       is_dir(c) /\ c.name = << "n", "o", "d", "e", "_", "m", "o", "d", "u", "l", "e", "s" >> /\ Len(c.children) > FILES_PER_DIR
  /\ \E c \in Range(tree_root.children) : is_dir(c) /\ c.name = << ".", "g", "i", "t" >>
  /\ \E c \in Range(tree_root.children) : is_file(c) /\ c.name = << ".", "e", "n", "v" >>
  /\ \E i \in 2..Len(TreeLines) :
       TreeLines[i].kind = "file" /\ TreeLines[i].name = << "b", "u", "i", "l", "d" >>
  /\ \E i \in 2..Len(TreeLines) :
       /\ TreeLines[i].name = << "d", "3" >>
       /\ \E c \in Range(NodeAt(tree_root, PathOf(TreeLines, i)).children) :
            c.name \in skip_dirs /\ c.children # << >>

\* C16: a listed directory with more than 10 visible files shows the first 10
\* of them in sorted order, then one "... (N more files)" line whose N is the
\* number of its visible files minus 10, whatever else the directory holds.
C16_MoreLineCountsFilesNotShown ==
  Rendered =>
    \A i \in 1..Len(TreeLines) :
      LET l == TreeLines[i]
          node == NodeAt(tree_root, PathOf(TreeLines, i))
          visible == shown_files(sorted(node.children))
          kids == ChildLines(TreeLines, i)
          file_kids == SelectSeq(kids, LAMBDA j : TreeLines[j].kind = "file")
          more_kids == SelectSeq(kids, LAMBDA j : TreeLines[j].kind = "more")
      IN ( /\ l.kind \in { "root", "dir" }
           /\ Level(l) <= MAX_TREE_DEPTH
           /\ node.list = "ok"
           /\ Len(visible) > 10 )
         => /\ [ k \in 1..Len(file_kids) |-> TreeLines[file_kids[k]].name ]
                 = NamesOf(Take(visible, 10))
            /\ Len(more_kids) = 1
            /\ more_kids[1] = kids[Len(kids)]
            /\ TreeLines[more_kids[1]].count = Len(visible) - 10

\* C17 as stated: no line is for an entry more than MAX_TREE_DEPTH levels
\* below the root, and every "... (N more files)" line stands in a directory
\* with more than 10 visible files (none marks an omitted level).
C17_NoLineBeyondFourLevels ==
  Rendered =>
    \A i \in 1..Len(TreeLines) :
      /\ Level(TreeLines[i]) <= MAX_TREE_DEPTH
      /\ TreeLines[i].kind = "more" =>
           Len(shown_files(NodeAt(tree_root, PathOf(TreeLines, i)).children)) > 10

\* C17 amended: no line is for an entry beneath more than MAX_TREE_DEPTH
\* directories, that is more than MAX_TREE_DEPTH + 1 levels below the root;
\* every "... (N more files)" line stands in a directory with more than 10
\* visible files.
C17_NoLineBeneathFiveDirs ==
  Rendered =>
    \A i \in 1..Len(TreeLines) :
      /\ Len(TreeLines[i].pre) <= MAX_TREE_DEPTH
      /\ TreeLines[i].kind = "more" =>
           Len(shown_files(NodeAt(tree_root, PathOf(TreeLines, i)).children)) > 10

\* a root nested 6 levels deep: d5 is drawn, 5 levels below the root, and
\* neither its file f5 nor d6
C17_Witness ==
  /\ Rendered
  /\ HasNode(tree_root, << << "d", "1" >>, << "d", "2" >>, << "d", "3" >>,
                           << "d", "4" >>, << "d", "5" >>, << "d", "6" >>,
                           << "f", "6" >> >>)
  /\ \E i \in 2..Len(TreeLines) :
       /\ TreeLines[i].name = << "d", "5" >>
       /\ TreeLines[i].kind = "dir"
       /\ Level(TreeLines[i]) = MAX_TREE_DEPTH + 1
  /\ \A i \in 2..Len(TreeLines) : TreeLines[i].name \notin { << "f", "5" >>, << "d", "6" >> }

\* whether lines i and j are entries drawn in the same directory
Siblings(ls, i, j) ==
  /\ ls[i].kind \in { "dir", "file" }
  /\ ls[j].kind \in { "dir", "file" }
  /\ Parent(ls, i) = Parent(ls, j)

\* C18: in every directory of the tree all subdirectory lines precede all file
\* lines, and within each group the names ascend case-insensitively.
C18_DirsFirstCaseInsensitive ==
  Rendered =>
    \A i \in 2..Len(TreeLines) : \A j \in (i + 1)..Len(TreeLines) :
      Siblings(TreeLines, i, j) =>
        /\ ~(TreeLines[i].kind = "file" /\ TreeLines[j].kind = "dir")
        /\ TreeLines[i].kind = TreeLines[j].kind =>
             ~StrLess(lower(TreeLines[j].name), lower(TreeLines[i].name))

\* a directory listed with a file ahead of a subdirectory, shown with the
\* subdirectory first, and two files shown in an order that the plain
\* code-point order would invert
C18_Witness ==
  /\ Rendered
  /\ Len(tree_root.children) > 1
  /\ is_file(tree_root.children[1])
  /\ is_dir(tree_root.children[Len(tree_root.children)])
  /\ TreeLines[2].kind = "dir"
  /\ \E i \in 2..Len(TreeLines) : \E j \in (i + 1)..Len(TreeLines) :
       /\ Siblings(TreeLines, i, j)
       /\ TreeLines[i].kind = "file"
       /\ TreeLines[j].kind = "file"
       /\ StrLess(TreeLines[j].name, TreeLines[i].name)

\* the same tree with every directory whose listing fails taken as empty
RECURSIVE Listable(_)
Listable(node) ==
  IF ~is_dir(node) THEN node
  ELSE IF node.list # "ok" THEN Dir(node.name, "ok", << >>)
  ELSE Dir(node.name, "ok",
           [ i \in 1..Len(node.children) |-> Listable(node.children[i]) ])

\* C19: when the listing of a subdirectory fails, by permission or otherwise,
\* the call still returns a tree, which draws that subdirectory without
\* anything beneath it and every other part as if the listing had succeeded.
C19_FailedListingSkipsSubtree ==
  tree_pc = "done" =>
    tree_out = generate_file_tree(Listable(tree_root), MAX_TREE_DEPTH)

\* ------------------------------------------------------------------------
\* read_files (agent-cli.py:629-791): the files of a caller's list, with line
\* numbers.  A path under the root is a record [kind, lines, ends_nl]: kind
\* is "absent", "dir", "text", "binary" (read_text raises UnicodeDecodeError),
\* "unreadable" (a regular file whose read_text raises PermissionError) or
\* "unstatable" (stat fails with an error that Path.exists() does not take
\* for absence and lets through: a name too long, a parent directory that
\* cannot be searched); lines are the lengths of the lines that
\* splitlines() gives; ends_nl tells whether the text ends with a newline.
\* ------------------------------------------------------------------------
MaxRequest == 3
MaxLines == 12

\* numbers of lines of a.py: none, one digit, the first of two digits, more
LineCounts == { 0, 1, 9, 10, MaxLines }

RfPaths ==
  { "a.py", "big.md", "missing.txt", "b.bin", "docs", "locked.txt", "secret/key.txt" }

\* an element of files.split(","): a path, or blank
Tokens == RfPaths \cup { "" }

RfEntry(kind, lines, ends_nl) == [ kind |-> kind, lines |-> lines, ends_nl |-> ends_nl ]

\* a.py has n short lines; big.md has two lines which together exceed
\* MAX_TOTAL_CONTENT, and no final newline
RfSnapshot(n) ==
  [ p \in RfPaths |->
      CASE p = "a.py" -> RfEntry("text", [ i \in 1..n |-> 10 + i ], TRUE)
        [] p = "big.md" -> RfEntry("text", << 3 * MAX_FILE_SIZE, 3 * MAX_FILE_SIZE >>, FALSE)
        [] p = "missing.txt" -> RfEntry("absent", << >>, FALSE)
        [] p = "b.bin" -> RfEntry("binary", << >>, FALSE)
        [] p = "docs" -> RfEntry("dir", << >>, FALSE)
        [] p = "locked.txt" -> RfEntry("unreadable", << >>, FALSE)
        [] p = "secret/key.txt" -> RfEntry("unstatable", << >>, FALSE) ]

\* full_path.suffix.lower()
suffix ==
  [ p \in RfPaths |->
      CASE p = "a.py" -> ".py"
        [] p = "big.md" -> ".md"
        [] p \in { "missing.txt", "locked.txt", "secret/key.txt" } -> ".txt"
        [] p = "b.bin" -> ".bin"
        [] p = "docs" -> "" ]

lang_map ==
  << << ".py", "python" >>,
     << ".js", "javascript" >>,
     << ".ts", "typescript" >>,
     << ".tsx", "tsx" >>,
     << ".jsx", "jsx" >>,
     << ".go", "go" >>,
     << ".rs", "rust" >>,
     << ".rb", "ruby" >>,
     << ".java", "java" >>,
     << ".c", "c" >>,
     << ".cpp", "cpp" >>,
     << ".h", "c" >>,
     << ".hpp", "cpp" >>,
     << ".cs", "csharp" >>,
     << ".php", "php" >>,
     << ".swift", "swift" >>,
     << ".kt", "kotlin" >>,
     << ".scala", "scala" >>,
     << ".sh", "bash" >>,
     << ".bash", "bash" >>,
     << ".zsh", "zsh" >>,
     << ".yml", "yaml" >>,
     << ".yaml", "yaml" >>,
     << ".json", "json" >>,
     << ".xml", "xml" >>,
     << ".html", "html" >>,
     << ".css", "css" >>,
     << ".scss", "scss" >>,
     << ".sql", "sql" >>,
     << ".md", "markdown" >>,
     << ".toml", "toml" >>,
     << ".ini", "ini" >>,
     << ".cfg", "ini" >> >>

\* lang_map.get(ext, "")
lang(ext) ==
  IF \E i \in 1..Len(lang_map) : lang_map[i][1] = ext
    THEN lang_map[CHOOSE i \in 1..Len(lang_map) : lang_map[i][1] = ext][2]
    ELSE ""

\* [f.strip() for f in files.split(",") if f.strip()]
NonBlank(tokens) == SelectSeq(tokens, LAMBDA t : t # "")

\* a block of the document: the "## File:" heading of a path with either a
\* status line or the line count, the fence and the rows
StatusBlock(path, status) ==
  [ path |-> path, status |-> status, nlines |-> 0, lang |-> "",
    numbered |-> FALSE, rows |-> << >>, newline_added |-> FALSE ]

NumberOnly(i, width) == [ pad |-> 0, n |-> i ]

\* f"{i:>{width}}": the digits of i after the blanks that fill the width
RightAligned(i, width) == [ pad |-> Max(width - Digits(i), 0), n |-> i ]

\* f"{i:>{width}}: {line}\n" for i, line in enumerate(lines, 1)
NumberedRows(lines) ==
  LET width == Digits(Len(lines))
  IN [ i \in 1..Len(lines) |->
         [ number |-> RightAligned(i, width), line |-> i, len |-> lines[i] ] ]

\* file_content itself, line by line
RawRows(lines) ==
  [ i \in 1..Len(lines) |-> [ number |-> << >>, line |-> i, len |-> lines[i] ] ]

ContentBlock(path, file, line_numbers) ==
  [ path |-> path, status |-> "read", nlines |-> Len(file.lines),
    lang |-> lang(suffix[path]),
    numbered |-> line_numbers,
    rows |-> IF line_numbers THEN NumberedRows(file.lines) ELSE RawRows(file.lines),
    newline_added |-> ~line_numbers /\ ~file.ends_nl ]

\* full_path.exists(): stat() fails with an error other than those pathlib
\* takes for absence, and exists() lets it through
StatRaises(file) == file.kind = "unstatable"

PathExists(file) == file.kind # "absent"

AnyExistingIsFile(file) == TRUE

\* full_path.is_file(), for a path that exists
PathIsFile(file) == file.kind # "dir"

FirstLinesWithinCap(file) ==
  SelectSeq(file.lines, LAMBDA n : n <= MAX_FILE_SIZE)

\* file_content.splitlines(), of full_path.read_text(encoding="utf-8")
splitlines(file) == file.lines

\* how read_text ends: "text", "UnicodeDecodeError", or another "Exception"
ReadOutcome(file) ==
  CASE file.kind = "text" -> "text"
    [] file.kind = "binary" -> "UnicodeDecodeError"
    [] OTHER -> "Exception"

RECURSIVE SeqsUpTo(_, _)
SeqsUpTo(S, n) ==
  IF n = 0 THEN { << >> }
  ELSE LET shorter == SeqsUpTo(S, n - 1)
       IN shorter \cup { Append(s, x) : s \in { t \in shorter : Len(t) = n - 1 }, x \in S }

\* the command line of read_files and the files it finds
InitReadFiles ==
  \E root \in { "dir", "file", "absent" }, tokens \in SeqsUpTo(Tokens, MaxRequest),
     n \in LineCounts, line_numbers \in BOOLEAN :
    /\ root # "dir" => (Len(tokens) <= 1 /\ n = 0)
    /\ BuildIdle
    /\ TreeIdle
    /\ SrIdle
    /\ ChIdle
    /\ rf_pc = "check"
    /\ rf_root = root
    /\ rf_args = [ files |-> tokens, line_numbers |-> line_numbers ]
    /\ rf_fs = RfSnapshot(n)
    /\ file_list = << >>
    /\ rf_i = 0
    /\ content_parts = << >>
    /\ files_read = 0
    /\ files_missing = 0
    /\ rf_output = << >>

AnythingThere(kind) == kind # "absent"

\* repo.is_dir(), repo_path.is_dir()
IsDirectory(kind) == kind = "dir"

\* if not repo.exists(): ... raise typer.Exit(1)
RfRootMissing ==
  /\ rf_pc = "check"
  /\ rf_root = "absent"
  /\ rf_pc' = "exit"
  /\ UNCHANGED << rf_root, rf_args, rf_fs, file_list, rf_i, content_parts,
                  files_read, files_missing, rf_output >>
  /\ UNCHANGED not_rf_vars

\* if not repo.is_dir(): ... raise typer.Exit(1)
RfRootNotDir ==
  /\ rf_pc = "check"
  /\ rf_root # "absent"
  /\ ~IsDirectory(rf_root)
  /\ rf_pc' = "exit"
  /\ UNCHANGED << rf_root, rf_args, rf_fs, file_list, rf_i, content_parts,
                  files_read, files_missing, rf_output >>
  /\ UNCHANGED not_rf_vars

\* if not file_list: ... raise typer.Exit(1)
RfNoFiles ==
  /\ rf_pc = "check"
  /\ rf_root # "absent"
  /\ IsDirectory(rf_root)
  /\ NonBlank(rf_args.files) = << >>
  /\ rf_pc' = "exit"
  /\ UNCHANGED << rf_root, rf_args, rf_fs, file_list, rf_i, content_parts,
                  files_read, files_missing, rf_output >>
  /\ UNCHANGED not_rf_vars

\* the list is parsed, the counters are set and the loop is entered
RfParse ==
  /\ rf_pc = "check"
  /\ rf_root # "absent"
  /\ IsDirectory(rf_root)
  /\ NonBlank(rf_args.files) # << >>
  /\ file_list' = NonBlank(rf_args.files)
  /\ rf_i' = 1
  /\ content_parts' = << >>
  /\ files_read' = 0
  /\ files_missing' = 0
  /\ rf_pc' = "loop"
  /\ UNCHANGED << rf_root, rf_args, rf_fs, rf_output >>
  /\ UNCHANGED not_rf_vars

\* the path and the file the loop is at
file_path == file_list[rf_i]
full_path == rf_fs[file_path]
InLoop == rf_pc = "loop" /\ rf_i <= Len(file_list)

\* a status block is appended and files_missing incremented
Skip(status) ==
  /\ content_parts' = Append(content_parts, StatusBlock(file_path, status))
  /\ files_missing' = files_missing + 1
  /\ rf_i' = rf_i + 1
  /\ UNCHANGED << rf_pc, rf_root, rf_args, rf_fs, file_list, files_read, rf_output >>
  /\ UNCHANGED not_rf_vars

\* full_path.exists() raises: the exception leaves the loop and the command
RfStatRaises ==
  /\ InLoop
  /\ StatRaises(full_path)
  /\ rf_pc' = "raised"
  /\ UNCHANGED << rf_root, rf_args, rf_fs, file_list, rf_i, content_parts,
                  files_read, files_missing, rf_output >>
  /\ UNCHANGED not_rf_vars

\* if not full_path.exists(): ... continue
RfNotFound ==
  /\ InLoop
  /\ ~StatRaises(full_path)
  /\ ~PathExists(full_path)
  /\ Skip("notFound")

\* if not full_path.is_file(): ... continue
RfNotAFile ==
  /\ InLoop
  /\ ~StatRaises(full_path)
  /\ PathExists(full_path)
  /\ ~PathIsFile(full_path)
  /\ Skip("notAFile")

ReadReached ==
  InLoop /\ ~StatRaises(full_path) /\ PathExists(full_path) /\ PathIsFile(full_path)

\* the try block runs to its end
RfReadText ==
  /\ ReadReached
  /\ ReadOutcome(full_path) = "text"
  /\ content_parts' =
       Append(content_parts,
              ContentBlock(file_path,
                           [ full_path EXCEPT !.lines = splitlines(full_path) ],
                           rf_args.line_numbers))
  /\ files_read' = files_read + 1
  /\ rf_i' = rf_i + 1
  /\ UNCHANGED << rf_pc, rf_root, rf_args, rf_fs, file_list, files_missing, rf_output >>
  /\ UNCHANGED not_rf_vars

\* except UnicodeDecodeError
RfBinary ==
  /\ ReadReached
  /\ ReadOutcome(full_path) = "UnicodeDecodeError"
  /\ Skip("binary")

\* except Exception as e
RfReadError ==
  /\ ReadReached
  /\ ReadOutcome(full_path) = "Exception"
  /\ Skip("error")

\* the summary is appended and final_content is written or echoed
RfSummary ==
  /\ rf_pc = "loop"
  /\ rf_i > Len(file_list)
  /\ rf_output' = [ files |-> Len(file_list), blocks |-> content_parts,
                    read |-> files_read, missing |-> files_missing ]
  /\ rf_pc' = "done"
  /\ UNCHANGED << rf_root, rf_args, rf_fs, file_list, rf_i, content_parts,
                  files_read, files_missing >>
  /\ UNCHANGED not_rf_vars

NextReadFiles ==
  \/ RfRootMissing
  \/ RfRootNotDir
  \/ RfNoFiles
  \/ RfParse
  \/ RfStatRaises
  \/ RfNotFound
  \/ RfNotAFile
  \/ RfReadText
  \/ RfBinary
  \/ RfReadError
  \/ RfSummary

SpecReadFiles == InitReadFiles /\ [][NextReadFiles]_vars

\* ------------------------------------------------------------------------
\* C21 - C24: read_files
\* ------------------------------------------------------------------------
NumWithStatus(blocks, S) ==
  Cardinality({ j \in 1..Len(blocks) : blocks[j].status \in S })

\* C21: whatever the request list and whatever its paths are, the command
\* does not stop at a path: it ends with one block per requested path, in the
\* order of the request, duplicates included, and files_read + files_missing
\* is the number of requested paths.
C21_OneBlockPerRequestedPath ==
  /\ rf_pc # "raised"
  /\ rf_pc = "done" =>
       /\ Len(rf_output.blocks) = Len(file_list)
       /\ \A i \in 1..Len(file_list) : rf_output.blocks[i].path = file_list[i]
       /\ rf_output.read + rf_output.missing = Len(file_list)

\* C22: a block is a content block, counted in files_read, exactly when its
\* path is a regular file that decodes as text; an absent path gets the
\* "File not found" status, a directory "Not a regular file", an undecodable
\* file "Binary file (cannot display)"; status blocks hold no content and
\* are counted in files_missing.
C22_StatusByKind ==
  rf_pc \in { "loop", "done", "raised" } =>
    /\ Len(content_parts) = rf_i - 1
    /\ \A j \in 1..Len(content_parts) :
         LET b == content_parts[j]
             kind == rf_fs[b.path].kind
         IN /\ b.path = file_list[j]
            /\ b.status = "read" <=> kind = "text"
            /\ kind = "absent" => b.status = "notFound"
            /\ kind = "dir" => b.status = "notAFile"
            /\ kind = "binary" => b.status = "binary"
            /\ b.status # "read" => b.rows = << >> /\ b.nlines = 0
    /\ files_read = NumWithStatus(content_parts, { "read" })
    /\ files_missing =
         NumWithStatus(content_parts, { "notFound", "notAFile", "binary", "error" })

\* a directory, an undecodable file and a text file were requested
C22_Witness ==
  /\ rf_pc = "done"
  /\ [ j \in 1..Len(rf_output.blocks) |-> rf_output.blocks[j].status ]
       = << "notAFile", "binary", "read" >>
  /\ rf_output.read = 1
  /\ rf_output.missing = 2

\* C23: every requested text file has a content block that holds every line
\* of the file at its full length, whatever the size of the file and of the
\* files before it.
C23_NoBudgetNoCap ==
  /\ \A j \in 1..Len(content_parts) :
       LET b == content_parts[j]
           lines == rf_fs[b.path].lines
       IN b.status = "read" =>
            /\ b.nlines = Len(lines)
            /\ Len(b.rows) = Len(lines)
            /\ \A k \in 1..Len(lines) : b.rows[k].line = k /\ b.rows[k].len = lines[k]
  /\ rf_pc = "done" =>
       \A i \in 1..Len(file_list) :
         rf_fs[file_list[i]].kind = "text" => rf_output.blocks[i].status = "read"

\* a file larger than MAX_FILE_SIZE, twice, more than MAX_TOTAL_CONTENT in
\* all, and a file after it in full
C23_Witness ==
  /\ rf_pc = "done"
  /\ file_list = << "big.md", "big.md", "a.py" >>
  /\ SumSeq(rf_fs["big.md"].lines) > MAX_FILE_SIZE
  /\ 2 * SumSeq(rf_fs["big.md"].lines) > MAX_TOTAL_CONTENT
  /\ Len(rf_fs["a.py"].lines) = MaxLines
  /\ Len(rf_output.blocks[3].rows) = MaxLines
  /\ SumSeq([ k \in 1..2 |-> rf_output.blocks[2].rows[k].len ]) > MAX_TOTAL_CONTENT

\* C24: with line numbers, a file of L lines gives L rows; row n holds the
\* number n and line n, and the number with its padding is as wide as the
\* decimal digits of L, in every row.
C24_LineNumberWidth ==
  \A j \in 1..Len(content_parts) :
    LET b == content_parts[j]
        L == Len(rf_fs[b.path].lines)
    IN (b.status = "read" /\ rf_args.line_numbers) =>
         /\ Len(b.rows) = L
         /\ \A n \in 1..L :
              /\ b.rows[n].number.n = n
              /\ b.rows[n].line = n
              /\ b.rows[n].number.pad + Digits(n) = Digits(L)

\* a file of 10 lines or more: the rows of lines 1 to 9 are padded by one
C24_Witness ==
  /\ rf_pc = "done"
  /\ rf_args.line_numbers
  /\ \E j \in 1..Len(rf_output.blocks) :
       LET b == rf_output.blocks[j]
       IN /\ b.status = "read"
          /\ Len(b.rows) >= 10
          /\ b.rows[9].number.pad = 1
          /\ b.rows[10].number.pad = 0

\* ------------------------------------------------------------------------
\* summarize_repo (agent-cli.py:441-625), as a command: its options, the
\* acquisition of the root, the work in order, and the finally block.
\* sr_args holds url ("none", "bad" for one parse_github_url rejects,
\* "good"), path ("none", "absent", "file", "dir"), keep_clone, task_id
\* ("none" or "given") and what the surroundings do: cloned (git clone
\* succeeds), answered (the agent call succeeds), dest_exists (the artifacts
\* directory of the task already holds a repo).
\* ------------------------------------------------------------------------
SrOptions ==
  [ url : { "none", "bad", "good" },
    path : { "none", "absent", "file", "dir" },
    keep_clone : BOOLEAN,
    task_id : { "none", "given" },
    cloned : BOOLEAN,
    answered : BOOLEAN,
    dest_exists : BOOLEAN ]

InitSummarize ==
  \E args \in SrOptions :
    /\ BuildIdle
    /\ TreeIdle
    /\ RfIdle
    /\ ChIdle
    /\ sr_pc = "start"
    /\ sr_args = args
    /\ task_id = args.task_id
    /\ temp_dir = "none"
    /\ clone = "none"
    /\ sr_work = << >>
    /\ sr_exit = "running"

\* raise typer.Exit(1) inside the try block: the finally block runs next
ExitInTry ==
  /\ sr_exit' = "error"
  /\ sr_pc' = "finally"

\* neither or both of --url and --path: exit before the try block
SrBadOptions ==
  /\ sr_pc = "start"
  /\ (sr_args.url = "none") = (sr_args.path = "none")
  /\ sr_exit' = "error"
  /\ sr_pc' = "ended"
  /\ UNCHANGED << sr_args, task_id, temp_dir, clone, sr_work >>
  /\ UNCHANGED not_sr_vars

\* if not task_id: task_id = <time and uuid>
GenerateTaskId(given) == IF given = "none" THEN "generated" ELSE given

SrTaskId ==
  /\ sr_pc = "start"
  /\ (sr_args.url = "none") # (sr_args.path = "none")
  /\ task_id' = GenerateTaskId(task_id)
  /\ sr_pc' = "try"
  /\ UNCHANGED << sr_args, temp_dir, clone, sr_work, sr_exit >>
  /\ UNCHANGED not_sr_vars

\* parse_github_url raises ValueError
SrBadUrl ==
  /\ sr_pc = "try"
  /\ sr_args.url = "bad"
  /\ ExitInTry
  /\ UNCHANGED << sr_args, task_id, temp_dir, clone, sr_work >>
  /\ UNCHANGED not_sr_vars

\* tempfile.mkdtemp, then clone_repository returns False
SrCloneFails ==
  /\ sr_pc = "try"
  /\ sr_args.url = "good"
  /\ ~sr_args.cloned
  /\ temp_dir' = "exists"
  /\ ExitInTry
  /\ UNCHANGED << sr_args, task_id, clone, sr_work >>
  /\ UNCHANGED not_sr_vars

\* tempfile.mkdtemp, then clone_repository returns True
SrClone ==
  /\ sr_pc = "try"
  /\ sr_args.url = "good"
  /\ sr_args.cloned
  /\ temp_dir' = "exists"
  /\ clone' = "temp"
  /\ sr_pc' = "scan"
  /\ UNCHANGED << sr_args, task_id, sr_work, sr_exit >>
  /\ UNCHANGED not_sr_vars

\* if not repo_path.exists(): ... raise typer.Exit(1)
SrLocalMissing ==
  /\ sr_pc = "try"
  /\ sr_args.url = "none"
  /\ sr_args.path = "absent"
  /\ ExitInTry
  /\ UNCHANGED << sr_args, task_id, temp_dir, clone, sr_work >>
  /\ UNCHANGED not_sr_vars

\* if not repo_path.is_dir(): ... raise typer.Exit(1)
SrLocalNotDir ==
  /\ sr_pc = "try"
  /\ sr_args.url = "none"
  /\ sr_args.path # "absent"
  /\ ~IsDirectory(sr_args.path)
  /\ ExitInTry
  /\ UNCHANGED << sr_args, task_id, temp_dir, clone, sr_work >>
  /\ UNCHANGED not_sr_vars

SrLocal ==
  /\ sr_pc = "try"
  /\ sr_args.url = "none"
  /\ sr_args.path # "absent"
  /\ IsDirectory(sr_args.path)
  /\ sr_pc' = "scan"
  /\ UNCHANGED << sr_args, task_id, temp_dir, clone, sr_work, sr_exit >>
  /\ UNCHANGED not_sr_vars

\* one piece of work is done and the command moves on
Work(at, what, then) ==
  /\ sr_pc = at
  /\ sr_work' = Append(sr_work, what)
  /\ sr_pc' = then
  /\ UNCHANGED << sr_args, task_id, temp_dir, clone, sr_exit >>
  /\ UNCHANGED not_sr_vars

\* key_files = find_key_files(repo_path)
SrFindKeyFiles == Work("scan", "find_key_files", "build")

\* context = build_repo_context(repo_path, key_files)
SrBuildContext == Work("build", "build_repo_context", "ask")

\* response = call_llm(prompt, "github")
SrCallLlm == sr_pc = "ask" /\ sr_args.answered /\ Work("ask", "call_llm", "save")

\* call_llm raises typer.Exit(1)
SrCallLlmFails ==
  /\ sr_pc = "ask"
  /\ ~sr_args.answered
  /\ sr_work' = Append(sr_work, "call_llm")
  /\ ExitInTry
  /\ UNCHANGED << sr_args, task_id, temp_dir, clone >>
  /\ UNCHANGED not_sr_vars

\* out_path.write_text(summary): the end of the try block
SrSave ==
  /\ sr_pc = "save"
  /\ sr_work' = Append(sr_work, "write_text")
  /\ sr_exit' = "ok"
  /\ sr_pc' = "finally"
  /\ UNCHANGED << sr_args, task_id, temp_dir, clone >>
  /\ UNCHANGED not_sr_vars

\* should_keep = keep_clone or (task_id is not None)
should_keep == sr_args.keep_clone \/ task_id # "none"

\* the finally block: the temporary directory is removed, or the clone is
\* moved to the artifacts directory of the task
SrFinally ==
  /\ sr_pc = "finally"
  /\ IF temp_dir = "exists" /\ ~should_keep
       THEN temp_dir' = "deleted" /\ clone' = "none"
       ELSE IF temp_dir # "none" /\ should_keep
         THEN /\ clone' = IF ~sr_args.dest_exists /\ clone = "temp"
                            THEN "artifacts" ELSE clone
              /\ UNCHANGED temp_dir
         ELSE UNCHANGED << temp_dir, clone >>
  /\ sr_pc' = "ended"
  /\ UNCHANGED << sr_args, task_id, sr_work, sr_exit >>
  /\ UNCHANGED not_sr_vars

NextSummarize ==
  \/ SrBadOptions
  \/ SrTaskId
  \/ SrBadUrl
  \/ SrCloneFails
  \/ SrClone
  \/ SrLocalMissing
  \/ SrLocalNotDir
  \/ SrLocal
  \/ SrFindKeyFiles
  \/ SrBuildContext
  \/ SrCallLlm
  \/ SrCallLlmFails
  \/ SrSave
  \/ SrFinally

SpecSummarize == InitSummarize /\ [][NextSummarize]_vars

\* both commands that take a root
InitEntryPoints == InitSummarize \/ InitReadFiles

NextEntryPoints == NextSummarize \/ NextReadFiles

SpecEntryPoints == InitEntryPoints /\ [][NextEntryPoints]_vars

\* ------------------------------------------------------------------------
\* C25, C30
\* ------------------------------------------------------------------------
BadRoot == { "absent", "file" }

\* C25: when the root does not exist or is not a directory, each of the two
\* commands ends with an error and does no work: summarize-repo --path runs
\* no classifier, no assembly, no agent call and writes nothing; read-files
\* parses no file list, emits no block and produces no document.
C25_RootPrecondition ==
  /\ (sr_pc # "idle" /\ sr_args.url = "none" /\ sr_args.path \in BadRoot) =>
       /\ sr_work = << >>
       /\ sr_exit # "ok"
       /\ sr_pc = "ended" => sr_exit = "error"
  /\ (rf_pc # "idle" /\ rf_root \in BadRoot) =>
       /\ rf_pc \in { "check", "exit" }
       /\ file_list = << >>
       /\ content_parts = << >>
       /\ files_read = 0
       /\ rf_output = << >>

\* summarize-repo --path on a file has ended
C25_Witness ==
  /\ sr_pc = "ended"
  /\ sr_args.url = "none"
  /\ sr_args.path = "file"
  /\ sr_exit = "error"

\* C30: when summarize-repo --url ends, with neither --keep-clone nor
\* --task-id given, the temporary directory is gone and the clone has not
\* been moved to the artifacts directory.
C30_TempDirDeleted ==
  (sr_pc = "ended" /\ temp_dir # "none" /\ ~sr_args.keep_clone /\ sr_args.task_id = "none") =>
    temp_dir = "deleted" /\ clone # "artifacts"

\* ------------------------------------------------------------------------
\* C27
\* ------------------------------------------------------------------------
\* whether line i is drawn for a directory (the root included)
IsDirLine(ls, i) == ls[i].kind \in { "root", "dir" }

\* C27: among the lines drawn directly in a directory, the final one and
\* only the final one has the last-sibling connector; a "... (N more files)"
\* line is there exactly when the directory holds more than ten visible
\* files, and it is the final one, so that every real entry of such a
\* directory has the non-last connector.  The lines in a directory drawn as
\* non-last extend its prefix by the vertical bar, those in a directory
\* drawn as last by four spaces.
C27_Connectors ==
  Rendered =>
    \A i \in 1..Len(TreeLines) :
      LET ls == TreeLines
          ch == ChildLines(ls, i)
          node == NodeAt(tree_root, PathOf(ls, i))
      IN (IsDirLine(ls, i) /\ ch # << >>) =>
           /\ \A k \in 1..Len(ch) :
                /\ ls[ch[k]].last = (k = Len(ch))
                /\ ls[ch[k]].kind = "more" => k = Len(ch)
                /\ ls[ch[k]].pre =
                     IF i = 1 THEN << >>
                     ELSE Append(ls[i].pre, IF ls[i].last THEN "gap" ELSE "bar")
           /\ (ls[ch[Len(ch)]].kind = "more") =
                (Len(shown_files(node.children)) > FILES_PER_DIR)

\* a tree with a truncated directory, and with lines drawn in a directory
\* that is a non-last sibling and in one that is a last sibling
C27_Witness ==
  /\ Rendered
  /\ \E i \in 1..Len(TreeLines) :
       /\ TreeLines[i].kind = "more"
       /\ Len(ChildLines(TreeLines, Parent(TreeLines, i))) > FILES_PER_DIR
  /\ \E i \in 2..Len(TreeLines) :
       /\ TreeLines[i].kind = "dir"
       /\ ~TreeLines[i].last
       /\ ChildLines(TreeLines, i) # << >>
  /\ \E i \in 2..Len(TreeLines) :
       /\ TreeLines[i].kind = "dir"
       /\ TreeLines[i].last
       /\ ChildLines(TreeLines, i) # << >>

\* ------------------------------------------------------------------------
\* C28
\* ------------------------------------------------------------------------
\* C28: among the file blocks of the sections built so far, and so of the
\* returned document, only the last one may carry the budget note; every
\* block before it, and the last one when it has no note, holds exactly the
\* text the reader returns for its file.
C28_OneBudgetNoteOnLastBlock ==
  LET blocks == Blocks(sections)
  IN \A i \in 1..Len(blocks) :
       /\ blocks[i].content.note => i = Len(blocks)
       /\ ~blocks[i].content.note =>
            blocks[i].content = read_file_safe(fs, blocks[i].path, MAX_FILE_SIZE).content

\* a returned document of two blocks or more whose last block was cut
C28_Witness ==
  /\ pc = "done"
  /\ Len(Blocks(document)) >= 2
  /\ Blocks(document)[Len(Blocks(document))].content.note
  /\ Blocks(document)[1].content.body > 0

\* ------------------------------------------------------------------------
\* chain (src/clawcrew/cli/chain.py), as a command.  A text is kept by the
\* step whose agent wrote it and its number of characters; a slice keeps the
\* step and shortens the text.  A file of the output directory is a name and
\* the text written to it.
\* ------------------------------------------------------------------------
AGENT_WORKSPACES == { "orca", "design", "code", "test", "github" }

\* content[:2000]
CONTEXT_CHARS == 2000

\* output[:200]
LESSON_CHARS == 200

MaxAgents == 3

\* agent names a caller may give, one of them unknown
AgentNames == { "design", "code", "bogus" }

\* lengths of what an agent returns
OutputLens == { 0, CONTEXT_CHARS, CONTEXT_CHARS + 1 }

Text(step, chars) == [ by |-> step, chars |-> chars ]

\* text[:n]
Sliced(text, n) == [ text EXCEPT !.chars = Min(text.chars, n) ]

\* get_workspace(agent) returns: the name is known and its workspace exists
HasWorkspace(agent) == agent \in AGENT_WORKSPACES /\ agent \in ch_ws

InitChain ==
  \E agents \in SeqsUpTo(AgentNames, MaxAgents), ws \in SUBSET { "code" } :
    /\ agents # << >>
    /\ BuildIdle
    /\ TreeIdle
    /\ RfIdle
    /\ SrIdle
    /\ other = << >>
    /\ interleaved = FALSE
    /\ ch_pc = "loop"
    /\ ch_agents = agents
    /\ ch_ws = AGENT_WORKSPACES \ ws
    /\ ch_i = 1
    /\ context_files = << >>
    /\ ch_files = << >>
    /\ ch_calls = << >>
    /\ ch_exit = "running"

\* f"{i:02d}-{agent}.md", without the suffix: the stem of the file
OutputStem(i, agent) == (IF i < 10 THEN "0" ELSE "") \o ToString(i) \o "-" \o agent

\* ctx_file.read_text(): the text last written under the name
read_text(name) ==
  LET k == CHOOSE k \in 1..Len(ch_files) : ch_files[k].name = name
  IN ch_files[k].content

\* output_file.write_text(output)
write_text(files, name, text) ==
  IF \E k \in 1..Len(files) : files[k].name = name
    THEN [ k \in 1..Len(files) |->
             IF files[k].name = name THEN [ files[k] EXCEPT !.content = text ]
             ELSE files[k] ]
    ELSE Append(files, [ name |-> name, content |-> text ])

\* {content[:2000]}
Embedded(content) == Sliced(content, CONTEXT_CHARS)

\* context_content: a heading and a fenced text for each of context_files
context_content ==
  [ k \in 1..Len(context_files) |->
      [ stem |-> context_files[k], content |-> Embedded(read_text(context_files[k])) ] ]

\* the message of step i
Message(i) == [ step |-> i, of |-> Len(ch_agents), context |-> context_content ]

\* call_llm(message, agent), as recorded
Call(kind, agent, message) == [ kind |-> kind, agent |-> agent, message |-> message ]

ChRunning == ch_pc = "loop" /\ ch_i <= Len(ch_agents)

ChExit(code) ==
  /\ ch_exit' = code
  /\ ch_pc' = "ended"

\* get_workspace raises ValueError: raise typer.Exit(1)
ChUnknownAgent ==
  /\ ChRunning
  /\ ~HasWorkspace(ch_agents[ch_i])
  /\ ChExit("error")
  /\ UNCHANGED << ch_agents, ch_ws, ch_i, context_files, ch_files, ch_calls >>
  /\ UNCHANGED not_ch_vars

\* call_llm raises LLMError: raise typer.Exit(1)
ChCallFails ==
  /\ ChRunning
  /\ HasWorkspace(ch_agents[ch_i])
  /\ ch_calls' = Append(ch_calls, Call("step", ch_agents[ch_i], Message(ch_i)))
  /\ ChExit("error")
  /\ UNCHANGED << ch_agents, ch_ws, ch_i, context_files, ch_files >>
  /\ UNCHANGED not_ch_vars

\* one turn of the loop: the agent answers, its output is written and added
\* to context_files, and the main agent is asked for a lesson (its answer, or
\* its LLMError, goes to the memory of the agent)
ChStep ==
  /\ ChRunning
  /\ HasWorkspace(ch_agents[ch_i])
  /\ \E chars \in OutputLens :
       LET agent == ch_agents[ch_i]
           output == Text(ch_i, chars)
           output_file == OutputStem(ch_i, agent)
       IN /\ ch_files' = write_text(ch_files, output_file, output)
          /\ context_files' = Append(context_files, output_file)
          /\ ch_calls' = ch_calls
                \o << Call("step", agent, Message(ch_i)),
                      Call("lesson", "main", Sliced(output, LESSON_CHARS)) >>
  /\ ch_i' = ch_i + 1
  /\ UNCHANGED << ch_pc, ch_agents, ch_ws, ch_exit >>
  /\ UNCHANGED not_ch_vars

\* the loop ends: the summary, return out_dir
ChDone ==
  /\ ch_pc = "loop"
  /\ ch_i > Len(ch_agents)
  /\ ChExit("ok")
  /\ UNCHANGED << ch_agents, ch_ws, ch_i, context_files, ch_files, ch_calls >>
  /\ UNCHANGED not_ch_vars

NextChain ==
  \/ ChUnknownAgent
  \/ ChCallFails
  \/ ChStep
  \/ ChDone

SpecChain == InitChain /\ [][NextChain]_vars

\* ------------------------------------------------------------------------
\* C29
\* ------------------------------------------------------------------------
\* the calls of the agents of the chain, in the order they were made
StepCalls == SelectSeq(ch_calls, LAMBDA c : c.kind = "step")

\* C29: the k-th agent called is the k-th agent given; its message holds,
\* in step order, the outputs of the steps 1..k-1 and nothing else; and once
\* the command has ended with an error at step i, no agent of a later step
\* was called and the output files of the steps 1..i-1 are there.
C29_ChainPassesOutputs ==
  /\ \A k \in 1..Len(StepCalls) :
       LET call == StepCalls[k]
       IN /\ call.agent = ch_agents[k]
          /\ call.message.step = k
          /\ Len(call.message.context) = k - 1
          /\ \A j \in 1..(k - 1) :
               /\ call.message.context[j].stem = OutputStem(j, ch_agents[j])
               /\ call.message.context[j].content = read_text(OutputStem(j, ch_agents[j]))
  /\ (ch_pc = "ended" /\ ch_exit = "error") =>
       /\ Len(StepCalls) <= ch_i
       /\ [ k \in 1..Len(ch_files) |-> ch_files[k].name ]
            = [ k \in 1..(ch_i - 1) |-> OutputStem(k, ch_agents[k]) ]

\* ------------------------------------------------------------------------
\* Two build_repo_context calls in progress at once.  The variables of the
\* assembly hold the locals of the call that is running; other holds those
\* of the call that is not.  Control may pass from one to the other between
\* any two steps.
\* ------------------------------------------------------------------------
\* the locals of the running call
Locals ==
  [ fs |-> fs, pc |-> pc, key_files |-> key_files, sections |-> sections,
    total_size |-> total_size, ci |-> ci, fi |-> fi,
    file_contents |-> file_contents, reads |-> reads, document |-> document ]

\* the locals of a call on root f that has not taken a step
NewCall(f) ==
  [ fs |-> f, pc |-> "find", key_files |-> << >>, sections |-> << >>,
    total_size |-> 0, ci |-> 0, fi |-> 0,
    file_contents |-> << >>, reads |-> << >>, document |-> << >> ]

\* the roots of the second call, besides the root of the first
SecondRoots ==
  { CHOOSE f \in LargeRoots : TRUE,
    CHOOSE f \in SmallRepoRoots : \A p \in SmallRepoPaths : f.shape[p].size = 200 }

InitTwoCalls ==
  \E f \in SmallRepoRoots \cup LargeRoots :
    \E g \in { f } \cup SecondRoots :
      /\ fs = f
      /\ pc = "find"
      /\ key_files = << >>
      /\ sections = << >>
      /\ total_size = 0
      /\ ci = 0
      /\ fi = 0
      /\ file_contents = << >>
      /\ reads = << >>
      /\ document = << >>
      /\ other = << NewCall(g) >>
      /\ interleaved = FALSE
      /\ TreeIdle
      /\ RfIdle
      /\ SrIdle
      /\ ch_pc = "idle"
      /\ ch_agents = << >>
      /\ ch_ws = {}
      /\ ch_i = 0
      /\ context_files = << >>
      /\ ch_files = << >>
      /\ ch_calls = << >>
      /\ ch_exit = "running"

\* a call is between its first step and its return
InProgress(at) == at \in { "build", "category", "files", "endcat" }

\* one counter for every call: the running call goes on with the value the
\* other call left
SharedTotalSize(own, left) == left

\* total_size = 0 (github.py:305): a local of the call, so the call that
\* takes over goes on with its own value
LocalTotalSize(own, left) == own

\* control passes to the other call, which goes on where it was
Switch ==
  /\ Len(other) = 1
  /\ other[1].pc \notin { "done", "raised" }
  /\ other' = << Locals >>
  /\ interleaved' = (interleaved \/ (InProgress(pc) /\ InProgress(other[1].pc)))
  /\ fs' = other[1].fs
  /\ pc' = other[1].pc
  /\ key_files' = other[1].key_files
  /\ sections' = other[1].sections
  /\ total_size' = LocalTotalSize(other[1].total_size, total_size)
  /\ ci' = other[1].ci
  /\ fi' = other[1].fi
  /\ file_contents' = other[1].file_contents
  /\ reads' = other[1].reads
  /\ document' = other[1].document
  /\ UNCHANGED << tree_vars, rf_vars, sr_vars, ch_vars >>

NextTwoCalls == Next \/ Switch

SpecTwoCalls == InitTwoCalls /\ [][NextTwoCalls]_vars

\* build_repo_context as a function of the root and the classification:
\* the loop over the files of a category from file k on, with the blocks it
\* appends and the total_size it leaves
RECURSIVE FileBlocks(_, _, _, _)
FileBlocks(f, files, k, total) ==
  IF k > Len(files) \/ BudgetReached(total) THEN [ blocks |-> << >>, total |-> total ]
  ELSE LET content == read_file_safe(f, files[k], MAX_FILE_SIZE).content
           fit == FitToBudget(content, total)
           rest == FileBlocks(f, files, k + 1, total + fit.content_size)
       IN [ blocks |-> << [ path |-> files[k], content |-> fit.content ] >> \o rest.blocks,
            total |-> rest.total ]

\* the loop over key_files.items() from item c on: the sections it appends
RECURSIVE CategorySections(_, _, _, _)
CategorySections(f, items, c, total) ==
  IF c > Len(items) THEN << >>
  ELSE IF items[c].files = << >> THEN CategorySections(f, items, c + 1, total)
  ELSE LET r == FileBlocks(f, items[c].files, 1, total)
       IN (IF r.blocks # << >> THEN << CategorySection(items[c].key, r.blocks) >> ELSE << >>)
            \o CategorySections(f, items, c + 1, r.total)

build_repo_context(f, items) ==
  << TreeSection(f) >> \o CategorySections(f, items, 1, 0 + f.tree_len)

\* the document a call on root f returns when it is the only call
DocumentAlone(f) == build_repo_context(f, find_key_files(f))

\* ------------------------------------------------------------------------
\* C26
\* ------------------------------------------------------------------------
\* the blocks a call has built: those of its sections and, inside the loop
\* over the files of a category, those of the category
BlocksOf(call) ==
  Blocks(call.sections)
    \o (IF call.pc \in { "files", "endcat" } THEN call.file_contents ELSE << >>)

\* what a call with these locals must hold: the classification of its own
\* root, a counter that holds what the call itself has charged (its tree
\* and the texts of its blocks), and at the end the document of a lone call
AsAlone(call) ==
  /\ call.pc \notin { "find" } => call.key_files = find_key_files(call.fs)
  /\ call.pc \in { "category", "files", "endcat", "done" } =>
       call.total_size =
         call.fs.tree_len
           + SumSeq([ j \in 1..Len(BlocksOf(call)) |-> ContentLen(BlocksOf(call)[j].content) ])
  /\ call.pc # "raised"
  /\ call.pc = "done" => call.document = DocumentAlone(call.fs)

\* C26: of two calls that run interleaved, on one root or on two, each
\* classifies its own root, counts only what it has consumed itself, and
\* returns the document it would return alone.
C26_CallsIsolated == AsAlone(Locals) /\ \A k \in 1..Len(other) : AsAlone(other[k])

\* both calls have returned after being in progress at once; one used up
\* the budget and cut its last block, the other embedded its files whole
C26_Witness ==
  /\ Len(other) = 1
  /\ interleaved
  /\ pc = "done"
  /\ other[1].pc = "done"
  /\ Blocks(document) # << >>
  /\ Blocks(document)[Len(Blocks(document))].content.note
  /\ Blocks(other[1].document) # << >>
  /\ \A j \in 1..Len(Blocks(other[1].document)) :
       /\ ~Blocks(other[1].document)[j].content.note
       /\ Blocks(other[1].document)[j].content.body > 0

====
